---------------------------- MODULE Spec2Model ----------------------------
(***************************************************************************)
(* State-machine model of the ADC driver of stm32wlxx-hal                  *)
(* (hal/src/adc.rs).                                                       *)
(*                                                                         *)
(* The driver is a single-threaded, blocking program; the peripheral is a  *)
(* second process that raises and clears flags on its own.  One driver     *)
(* step is one register access (or one delay, or one successful poll), so  *)
(* the peripheral may move between any two register accesses.  A register  *)
(* value is the set of the names of its bits that are 1.                   *)
(***************************************************************************)
EXTENDS Integers, Sequences, FiniteSets

VARIABLES
    cr,        \* ADC_CR: subset of CrBits
    isr,       \* ADC_ISR: subset of IsrBits
    dmaen,     \* ADC_CFGR1.DMAEN
    enabling,  \* peripheral-internal: ADEN accepted, ADRDY not raised yet
    ckmode,    \* ADC_CFGR2.CKMODE
    adcsel,    \* RCC_CCIPR.ADCSEL
    adcen,     \* RCC_APB2ENR.ADCEN
    cfgPend,   \* peripheral-internal: ADC_CHSELR written, CCRDY not raised yet
    chselr,    \* ADC_CHSELR: the positions of its bits that are 1
    smpr,      \* ADC_SMPR: the positions of its bits that are 1
    dr,        \* ADC_DR.DATA
    calfact,   \* ADC_CALFACT.CALFACT
    ccr,       \* ADC_CCR: subset of CcrBits
    presc,     \* ADC_CCR.PRESC, as the variant the field decodes to
    rcc,       \* the clock tree: frequencies of PLL "P", SYSCLK and PCLK
    tscal,     \* the factory words TS_CAL1 and TS_CAL2 of the system memory
    ier,       \* ADC_IER: the positions of its bits that are 1
    aes_sr,    \* AES_SR: subset of AesSrBits
    owner,     \* "pac": the raw peripheral is free; "drv": an Adc holds it
    pc,        \* position of the driver inside the running operation
    trace      \* what the running (or last) operation has done so far

\* the registers and internal state added for the conversions and the clock
ext  == <<cfgPend, chselr, smpr, dr, calfact, ccr, presc, rcc, tscal, ier, aes_sr>>
hw   == <<cr, isr, dmaen, enabling, ckmode, adcsel, adcen, ext>>
vars == <<cr, isr, dmaen, enabling, ckmode, adcsel, adcen, ext, owner, pc, trace>>

--------------------------------------------------------------------------
(* Registers *)

\* the "rs" bits of ADC_CR: software can only set them, hardware clears them
RsBits == {"ADEN", "ADDIS", "ADSTART", "ADSTP", "ADCAL"}

CrBits == RsBits \cup {"ADVREGEN"}

IsrBits == {"ADRDY", "EOC", "EOCAL", "CCRDY"}

\* the enables of the internal sources in ADC_CCR
CcrBits == {"TSEN", "VREFEN", "VBATEN"}

\* the variants the prescaler field decodes to; "RESERVED" is every other code
Presc == {"DIV1", "DIV2", "DIV4", "DIV6", "DIV8", "DIV10", "DIV12", "DIV16",
          "DIV32", "DIV64", "DIV128", "DIV256", "RESERVED"}

\* a Ratio<u32>
Ratio(n, d) == [numer |-> n, denom |-> d]

\* largest sample and largest calibration factor the peripheral produces here
MaxData == 1
MaxCalfact == 1

\* the clock tree the lifecycle of the driver is explored under
RccDefault ==
    [pllp |-> Ratio(48000000, 1), sysclk |-> Ratio(48000000, 1),
     pclk |-> Ratio(48000000, 1)]

\* the factory calibration of the temperature sensor the driver is explored
\* with where the temperature itself is not the subject: TS_CAL1 (30 degrees)
\* and TS_CAL2 (130 degrees)
TsCalDefault == [cal1 |-> 1400, cal2 |-> 1800]

T_ADCVREG_SETUP_MICROS == 20

Clk == {"RccHsi", "RccPllP", "RccSysClk", "PClkDiv2", "PClkDiv4", "PClk"}

ckmode_of(clk) ==
    CASE clk \in {"RccHsi", "RccPllP", "RccSysClk"} -> "ADCLK"
      [] clk = "PClkDiv2" -> "PCLK_DIV2"
      [] clk = "PClkDiv4" -> "PCLK_DIV4"
      [] OTHER -> "PCLK"

\* faulty variant of adcsel_of: the PLL "P" output and SYSCLK are exchanged
adcsel_of_Exchanged(clk) ==
    CASE clk = "RccHsi" -> "HSI16"
      [] clk = "RccPllP" -> "SYSCLK"
      [] clk = "RccSysClk" -> "PLLP"
      [] OTHER -> "NOCLOCK"

adcsel_of(clk) ==
    CASE clk = "RccHsi" -> "HSI16"
      [] clk = "RccPllP" -> "PLLP"
      [] clk = "RccSysClk" -> "SYSCLK"
      [] OTHER -> "NOCLOCK"

--------------------------------------------------------------------------
(* What an operation has done: calls, register writes, read-modify-writes  *)
(* ("set"/"clr" name the fields the closure changes), loop exits ("obs"),  *)
(* delays, returns and failed debug assertions ("trap").                   *)

Ev(k, r, v, n) == [k |-> k, r |-> r, v |-> v, n |-> n]

\* c: the bits of ADC_CR and ADC_ISR that are 1 when the operation is entered
Call(o, c) == Ev("call", o, c, 0)
Ret(o)     == Ev("ret", o, {}, 0)
Wr(r, v)   == Ev("wr", r, v, 0)
SetF(r, v) == Ev("set", r, v, 0)
ClrF(r, v) == Ev("clr", r, v, 0)
Obs(what)  == Ev("obs", what, {}, 0)
Delay(us)  == Ev("delay", "us", {}, us)
Trap(why)  == Ev("trap", why, {}, 0)

Emit(e) == trace' = Append(trace, e)

\* the public operation the driver is in (or was in last)
op == IF trace = <<>> THEN "none" ELSE trace[1].r

--------------------------------------------------------------------------
(* The peripheral's answer to a write of w to ADC_CR when it holds c.      *)
(* ADVREGEN is read/write; an rs bit written 1 is set when the hardware    *)
(* accepts the request, and a 0 written to it changes nothing.             *)

CrAfterWrite(c, w) ==
    LET setEn    == "ADEN" \in w /\ c \cap RsBits = {}
        setDis   == "ADDIS" \in w /\ "ADEN" \in c /\ "ADSTART" \notin c
        setStart == "ADSTART" \in w /\ "ADEN" \in c /\ "ADDIS" \notin c
        setStp   == "ADSTP" \in w /\ "ADSTART" \in c /\ "ADDIS" \notin c
        setCal   == "ADCAL" \in w /\ "ADEN" \notin c /\ "ADVREGEN" \in w
    IN  (c \cap RsBits)
          \cup (IF setEn THEN {"ADEN"} ELSE {})
          \cup (IF setDis THEN {"ADDIS"} ELSE {})
          \cup (IF setStart THEN {"ADSTART"} ELSE {})
          \cup (IF setStp THEN {"ADSTP"} ELSE {})
          \cup (IF setCal THEN {"ADCAL"} ELSE {})
          \cup (w \cap {"ADVREGEN"})

\* adc.cr.write(w)
WriteCr(w) ==
    /\ cr' = CrAfterWrite(cr, w)
    /\ enabling' = (enabling \/ ("ADEN" \notin cr /\ "ADEN" \in CrAfterWrite(cr, w)))

\* adc.isr.write(w): the flags are cleared by writing 1
WriteIsr(w) == isr' = isr \ w

\* faulty variant of is_enabled: a pending disable request counts as not enabled
is_enabled_NoDisable == "ADEN" \in cr /\ "ADDIS" \notin cr

is_enabled == "ADEN" \in cr

is_disabled == "ADEN" \notin cr /\ "ADDIS" \notin cr

\* states the control register and the enable sequencer can be in
HwOk(c, e) ==
    /\ "ADDIS" \in c => "ADEN" \in c
    /\ "ADSTART" \in c => ("ADEN" \in c /\ "ADDIS" \notin c)
    /\ "ADSTP" \in c => "ADSTART" \in c
    /\ "ADCAL" \in c => "ADEN" \notin c
    /\ e => "ADEN" \in c

--------------------------------------------------------------------------
Init ==
    /\ cr \in SUBSET CrBits
    /\ enabling \in BOOLEAN
    /\ HwOk(cr, enabling)
    /\ isr \in SUBSET IsrBits
    /\ dmaen \in BOOLEAN
    /\ ckmode = "ADCLK"
    /\ adcsel = "NOCLOCK"
    /\ adcen \in BOOLEAN
    /\ cfgPend = FALSE
    /\ chselr = {} /\ smpr = {} /\ dr = 0 /\ calfact = 0
    /\ ccr = {}
    /\ presc = "DIV1"
    /\ rcc = RccDefault
    /\ tscal = TsCalDefault
    /\ ier = {}
    /\ aes_sr = {}
    /\ owner = "pac"
    /\ pc = "idle"
    /\ trace = <<>>

--------------------------------------------------------------------------
(* The peripheral *)

HwReady ==
    /\ adcen /\ enabling
    /\ isr' = isr \cup {"ADRDY"}
    /\ enabling' = FALSE
    /\ UNCHANGED <<cr, dmaen, ckmode, adcsel, adcen, ext, owner, pc, trace>>

HwStopDone ==
    /\ adcen /\ "ADSTP" \in cr
    /\ cr' = cr \ {"ADSTP", "ADSTART"}
    /\ UNCHANGED <<isr, dmaen, enabling, ckmode, adcsel, adcen, ext, owner, pc, trace>>

\* the running conversion ends with a sample from the set D
HwEocWith(D) ==
    /\ adcen /\ "ADSTART" \in cr /\ "ADSTP" \notin cr
    /\ cr' = cr \ {"ADSTART"}
    /\ isr' = isr \cup {"EOC"}
    /\ dr' \in D
    /\ UNCHANGED <<dmaen, enabling, ckmode, adcsel, adcen, owner, pc, trace>>
    /\ UNCHANGED <<cfgPend, chselr, smpr, calfact, ccr, presc, rcc, tscal, ier, aes_sr>>

HwEoc == HwEocWith(0..MaxData)

HwDisableDone ==
    /\ adcen /\ "ADDIS" \in cr
    /\ cr' = cr \ {"ADEN", "ADDIS"}
    /\ enabling' = FALSE
    /\ UNCHANGED <<isr, dmaen, ckmode, adcsel, adcen, ext, owner, pc, trace>>

HwCalDone ==
    /\ adcen /\ "ADCAL" \in cr
    /\ cr' = cr \ {"ADCAL"}
    /\ isr' = isr \cup {"EOCAL"}
    /\ calfact' \in 0..MaxCalfact
    /\ UNCHANGED <<dmaen, enabling, ckmode, adcsel, adcen, owner, pc, trace>>
    /\ UNCHANGED <<cfgPend, chselr, smpr, dr, ccr, presc, rcc, tscal, ier, aes_sr>>

\* the channel configuration written to ADC_CHSELR has been applied
HwCcrdy ==
    /\ adcen /\ cfgPend
    /\ isr' = isr \cup {"CCRDY"}
    /\ cfgPend' = FALSE
    /\ UNCHANGED <<cr, dmaen, enabling, ckmode, adcsel, adcen, owner, pc, trace>>
    /\ UNCHANGED <<chselr, smpr, dr, calfact, ccr, presc, rcc, tscal, ier, aes_sr>>

Hw == HwReady \/ HwStopDone \/ HwEoc \/ HwDisableDone \/ HwCalDone

--------------------------------------------------------------------------
(* Ownership *)

\* faulty variant of New: the reset pulse is missing
New_NoReset(clk) ==
    /\ owner = "pac" /\ pc = "idle"
    /\ adcen' = TRUE
    /\ ckmode' = ckmode_of(clk)
    /\ adcsel' = adcsel_of(clk)
    /\ owner' = "drv"
    /\ trace' = <<Call("new", cr \cup isr), Ev("arg", clk, {}, 0), Ret("new")>>
    /\ UNCHANGED <<cr, isr, dmaen, enabling, ext, pc>>

\* Adc::new: pulse_reset, enable_clock, cfgr2.write(ckmode), ccipr.modify(adcsel)
New(clk) ==
    /\ owner = "pac" /\ pc = "idle"
    /\ cr' = {} /\ isr' = {} /\ dmaen' = FALSE /\ enabling' = FALSE
    /\ adcen' = TRUE
    /\ ckmode' = ckmode_of(clk)
    /\ adcsel' = adcsel_of(clk)
    /\ owner' = "drv"
    /\ cfgPend' = FALSE
    /\ chselr' = {} /\ smpr' = {} /\ dr' = 0 /\ calfact' = 0
    /\ ccr' = {}
    /\ presc' = "DIV1"
    /\ trace' = <<Call("new", cr \cup isr), Ev("arg", clk, {}, 0),
                  Ev("reset", "adc", cr, 0), Ret("new")>>
    /\ ier' = {}
    /\ UNCHANGED <<rcc, tscal, aes_sr, pc>>

\* Adc::steal: no initialisation
Steal ==
    /\ owner = "pac" /\ pc = "idle" /\ adcen
    /\ owner' = "drv"
    /\ trace' = <<Call("steal", cr \cup isr), Ret("steal")>>
    /\ UNCHANGED <<hw, pc>>

\* Adc::free
\* faulty variant of free: the handle outlives the call
Free_KeepsHandle ==
    /\ owner = "drv" /\ pc = "idle"
    /\ trace' = <<Call("free", cr \cup isr), Ret("free")>>
    /\ UNCHANGED <<hw, owner, pc>>

Free ==
    /\ owner = "drv" /\ pc = "idle"
    /\ owner' = "pac"
    /\ trace' = <<Call("free", cr \cup isr), Ret("free")>>
    /\ UNCHANGED <<hw, pc>>

Callable == owner = "drv" /\ pc = "idle"

--------------------------------------------------------------------------
(* enable / start_enable *)

\* faulty variant of EnableCall: start_enable does not look at ADEN
EnableCall_Unconditional ==
    /\ Callable
    /\ pc' = "en_clr"
    /\ trace' = <<Call("enable", cr \cup isr)>>
    /\ UNCHANGED <<hw, owner>>

\* enable() entered; start_enable reads ADEN
EnableCall ==
    /\ Callable
    /\ IF "ADEN" \notin cr
         THEN /\ pc' = "en_clr"
              /\ trace' = <<Call("enable", cr \cup isr)>>
         ELSE /\ pc' = "idle"
              /\ trace' = <<Call("enable", cr \cup isr), Ret("enable")>>
    /\ UNCHANGED <<hw, owner>>

\* faulty variant of EnableClearReady: ADRDY is not cleared before the request
EnableClearReady_Skipped ==
    /\ pc = "en_clr"
    /\ Emit(Wr("isr", {}))
    /\ pc' = "en_set"
    /\ UNCHANGED <<hw, owner>>

\* adc.isr.write(|w| w.adrdy().set_bit())
EnableClearReady ==
    /\ pc = "en_clr"
    /\ WriteIsr({"ADRDY"})
    /\ Emit(Wr("isr", {"ADRDY"}))
    /\ pc' = "en_set"
    /\ UNCHANGED <<cr, dmaen, enabling, ckmode, adcsel, adcen, ext, owner>>

\* adc.cr.write(|w| w.aden().set_bit())
EnableSetAden ==
    /\ pc = "en_set"
    /\ WriteCr({"ADEN"})
    /\ Emit(Wr("cr", {"ADEN"}))
    /\ pc' = "en_wait"
    /\ UNCHANGED <<isr, dmaen, ckmode, adcsel, adcen, ext, owner>>

\* faulty variant of EnableWaitReady: the loop gives up without the flag
EnableWaitReady_GivesUp ==
    /\ pc = "en_wait"
    /\ pc' = "idle"
    /\ trace' = trace \o <<Obs("adrdy"), Ret("enable")>>
    /\ UNCHANGED <<hw, owner>>

\* while adc.isr.read().adrdy().is_not_ready() {}
EnableWaitReady ==
    /\ pc = "en_wait"
    /\ "ADRDY" \in isr
    /\ pc' = "idle"
    /\ trace' = trace \o <<Obs("adrdy"), Ret("enable")>>
    /\ UNCHANGED <<hw, owner>>

Enable == EnableCall \/ EnableClearReady \/ EnableSetAden \/ EnableWaitReady

--------------------------------------------------------------------------
(* start_disable; enable_vreg and calibrate begin by running it *)

\* the operation o is entered; start_disable reads ADSTART
SdEntry(o) ==
    /\ Callable
    /\ trace' = <<Call(o, cr \cup isr)>>
    /\ pc' = IF "ADSTART" \in cr THEN "sd_stp" ELSE "sd_chk"
    /\ UNCHANGED <<hw, owner>>

StartDisableCall == SdEntry("start_disable")

\* adc.cr.modify(|_, w| w.adstp().stop_conversion())
SdStop ==
    /\ pc = "sd_stp"
    /\ WriteCr(cr \cup {"ADSTP"})
    /\ Emit(SetF("cr", {"ADSTP"}))
    /\ pc' = "sd_wait"
    /\ UNCHANGED <<isr, dmaen, ckmode, adcsel, adcen, ext, owner>>

\* faulty variant of SdWaitStop: the loop does not wait for ADSTP to clear
SdWaitStop_NoPoll ==
    /\ pc = "sd_wait"
    /\ Emit(Obs("adstp_clear"))
    /\ pc' = "sd_chk"
    /\ UNCHANGED <<hw, owner>>

\* while adc.cr.read().adstp().bit_is_set() {}
SdWaitStop ==
    /\ pc = "sd_wait"
    /\ "ADSTP" \notin cr
    /\ Emit(Obs("adstp_clear"))
    /\ pc' = "sd_chk"
    /\ UNCHANGED <<hw, owner>>

\* where start_disable returns to, and what the return appends to the trace
SdReturnPc == IF op = "start_disable" THEN "idle" ELSE "ev_wait"

SdReturnEv == IF op = "start_disable" THEN <<Ret("start_disable")>> ELSE <<>>

\* faulty variant of SdCheckAden: ADDIS is requested whatever ADEN reads
SdCheckAden_Unconditional ==
    /\ pc = "sd_chk"
    /\ pc' = "sd_addis"
    /\ UNCHANGED <<hw, owner, trace>>

\* if adc.cr.read().aden().bit_is_set()
SdCheckAden ==
    /\ pc = "sd_chk"
    /\ IF "ADEN" \in cr
         THEN /\ pc' = "sd_addis"
              /\ UNCHANGED trace
         ELSE /\ pc' = SdReturnPc
              /\ trace' = trace \o SdReturnEv
    /\ UNCHANGED <<hw, owner>>

\* faulty variant of SdSetAddis: the disable request is not written
SdSetAddis_Skipped ==
    /\ pc = "sd_addis"
    /\ trace' = trace \o SdReturnEv
    /\ pc' = SdReturnPc
    /\ UNCHANGED <<hw, owner>>

\* adc.cr.modify(|_, w| w.addis().set_bit())
SdSetAddis ==
    /\ pc = "sd_addis"
    /\ WriteCr(cr \cup {"ADDIS"})
    /\ trace' = Append(trace, SetF("cr", {"ADDIS"})) \o SdReturnEv
    /\ pc' = SdReturnPc
    /\ UNCHANGED <<isr, dmaen, ckmode, adcsel, adcen, ext, owner>>

StartDisable == StartDisableCall \/ SdStop \/ SdWaitStop \/ SdCheckAden \/ SdSetAddis

--------------------------------------------------------------------------
(* enable_vreg / disable_vreg *)

EnableVregCall == SdEntry("enable_vreg")

\* faulty variant of EvWaitDisabled: the loop does not wait for the disable
EvWaitDisabled_NoPoll ==
    /\ pc = "ev_wait"
    /\ Emit(Obs("disabled"))
    /\ pc' = "ev_vreg"
    /\ UNCHANGED <<hw, owner>>

\* while !self.is_disabled() {}
EvWaitDisabled ==
    /\ pc = "ev_wait"
    /\ is_disabled
    /\ Emit(Obs("disabled"))
    /\ pc' = "ev_vreg"
    /\ UNCHANGED <<hw, owner>>

\* adc.cr.write(|w| w.advregen().enabled())
EvSetVreg ==
    /\ pc = "ev_vreg"
    /\ WriteCr({"ADVREGEN"})
    /\ Emit(Wr("cr", {"ADVREGEN"}))
    /\ pc' = "ev_dma"
    /\ UNCHANGED <<isr, dmaen, ckmode, adcsel, adcen, ext, owner>>

\* adc.cfgr1.modify(|_, w| w.dmaen().clear_bit())
EvClearDma ==
    /\ pc = "ev_dma"
    /\ dmaen' = FALSE
    /\ IF op = "enable_vreg"
         THEN /\ trace' = trace \o <<ClrF("cfgr1", {"DMAEN"}), Ret("enable_vreg")>>
              /\ pc' = "idle"
         ELSE /\ trace' = Append(trace, ClrF("cfgr1", {"DMAEN"}))
              /\ pc' = "cal_delay"
    /\ UNCHANGED <<cr, isr, enabling, ckmode, adcsel, adcen, ext, owner>>

EnableVreg == EnableVregCall \/ EvWaitDisabled \/ EvSetVreg \/ EvClearDma

\* adc.cr.modify(|_, w| w.advregen().disabled())
DisableVreg ==
    /\ Callable
    /\ WriteCr(cr \ {"ADVREGEN"})
    /\ trace' = <<Call("disable_vreg", cr \cup isr), ClrF("cr", {"ADVREGEN"}), Ret("disable_vreg")>>
    /\ UNCHANGED <<isr, dmaen, ckmode, adcsel, adcen, ext, owner, pc>>

--------------------------------------------------------------------------
(* start_calibrate / calibrate *)

StartCalibrateCall ==
    /\ Callable
    /\ trace' = <<Call("start_calibrate", cr \cup isr)>>
    /\ pc' = "sc_assert"
    /\ UNCHANGED <<hw, owner>>

\* faulty variant of ScAssert: the two assertions are missing
ScAssert_Unchecked ==
    /\ pc = "sc_assert"
    /\ pc' = "sc_wr"
    /\ UNCHANGED <<hw, owner, trace>>

\* debug_assert!(advregen().is_enabled()); debug_assert!(self.is_disabled())
ScAssert ==
    /\ pc = "sc_assert"
    /\ IF "ADVREGEN" \in cr /\ is_disabled
         THEN /\ pc' = "sc_wr"
              /\ UNCHANGED trace
         ELSE /\ pc' = "trapped"
              /\ Emit(Trap("start_calibrate"))
    /\ UNCHANGED <<hw, owner>>

\* adc.cr.write(|w| w.adcal().start_calibration().advregen().enabled())
ScWrite ==
    /\ pc = "sc_wr"
    /\ WriteCr({"ADCAL", "ADVREGEN"})
    /\ IF op = "start_calibrate"
         THEN /\ trace' = trace \o <<Wr("cr", {"ADCAL", "ADVREGEN"}), Ret("start_calibrate")>>
              /\ pc' = "idle"
         ELSE /\ trace' = Append(trace, Wr("cr", {"ADCAL", "ADVREGEN"}))
              /\ pc' = "cal_wait"
    /\ UNCHANGED <<isr, dmaen, ckmode, adcsel, adcen, ext, owner>>

StartCalibrate == StartCalibrateCall \/ ScAssert \/ ScWrite

CalibrateCall == SdEntry("calibrate")

\* faulty variant of CalDelay: the regulator start-up delay is missing
CalDelay_Skipped ==
    /\ pc = "cal_delay"
    /\ pc' = "sc_assert"
    /\ UNCHANGED <<hw, owner, trace>>

\* delay.delay_us(T_ADCVREG_SETUP_MICROS)
CalDelay ==
    /\ pc = "cal_delay"
    /\ Emit(Delay(T_ADCVREG_SETUP_MICROS))
    /\ pc' = "sc_assert"
    /\ UNCHANGED <<hw, owner>>

\* faulty variant of CalWait: the loop does not wait for ADCAL to clear
CalWait_NoPoll ==
    /\ pc = "cal_wait"
    /\ Emit(Obs("adcal_clear"))
    /\ pc' = "cal_clr"
    /\ UNCHANGED <<hw, owner>>

\* while adc.cr.read().adcal().is_calibrating() {}
CalWait ==
    /\ pc = "cal_wait"
    /\ "ADCAL" \notin cr
    /\ Emit(Obs("adcal_clear"))
    /\ pc' = "cal_clr"
    /\ UNCHANGED <<hw, owner>>

\* adc.isr.write(|w| w.eocal().set_bit())
CalClearEocal ==
    /\ pc = "cal_clr"
    /\ WriteIsr({"EOCAL"})
    /\ trace' = trace \o <<Wr("isr", {"EOCAL"}), Ret("calibrate")>>
    /\ pc' = "idle"
    /\ UNCHANGED <<cr, dmaen, enabling, ckmode, adcsel, adcen, ext, owner>>

Calibrate == CalibrateCall \/ CalDelay \/ CalWait \/ CalClearEocal

--------------------------------------------------------------------------
(* Bit-level values.  A u32 is the set of the positions of its 1 bits.     *)

\* the 1 bits of the natural number n (n < 2^31)
BitsOf(n) == {i \in 0..30 : (n \div 2^i) % 2 = 1}

\* b << k on a u32: bits shifted past position 31 are lost
Shl(b, k) == {i + k : i \in b} \cap (0..31)

\* const CH_MASK: u32 = 0x27FFF
CH_MASK == BitsOf(163839)

\* enum Ts, with its discriminants
Ts == [Cyc1 |-> 0, Cyc3 |-> 1, Cyc7 |-> 2, Cyc12 |-> 3,
       Cyc19 |-> 4, Cyc39 |-> 5, Cyc79 |-> 6, Cyc160 |-> 7]

\* enum Ch, with its discriminants
Ch == [In0 |-> 0, In1 |-> 1, In2 |-> 2, In3 |-> 3, In4 |-> 4, In5 |-> 5,
       In6 |-> 6, In7 |-> 7, In8 |-> 8, In9 |-> 9, In10 |-> 10, In11 |-> 11,
       Vts |-> 12, Vref |-> 13, Vbat |-> 14, Dac |-> 17]

\* the channels that are connected to a pin
PinCh == {"In0", "In1", "In2", "In3", "In4", "In5",
          "In6", "In7", "In8", "In9", "In10", "In11"}

\* faulty variant of mask: the channel number itself is returned
mask_AsIndex(ch) == BitsOf(Ch[ch])

\* Ch::mask: 1 << (self as u8)
mask(ch) == Shl(BitsOf(1), Ch[ch])

\* a call of Ch::mask on the channel ch, from anywhere in the program
ChMask(ch) ==
    /\ pc = "idle"
    /\ ch \in DOMAIN Ch
    /\ trace' = << Ev("call", "mask", {}, 0), Ev("arg", ch, {}, Ch[ch]),
                   Ev("ret", "mask", mask(ch), 0) >>
    /\ UNCHANGED <<hw, owner, pc>>

\* an argument of the running operation
Arg(name, v, n) == Ev("arg", name, v, n)

\* a return with a value
RetVal(o, n) == Ev("ret", o, {}, n)

--------------------------------------------------------------------------
(* set_sample_times / set_max_sample_time *)

\* faulty variant of SmprBits: the mask is not restricted to the valid channels
SmprBits_Unmasked(m, sel0, sel1) ==
    Shl(m, 8) \cup Shl(BitsOf(Ts[sel1]), 4) \cup BitsOf(Ts[sel0])

\* (mask & CH_MASK) << 8 | u32::from(sel1) << 4 | u32::from(sel0)
SmprBits(m, sel0, sel1) ==
    Shl(m \cap CH_MASK, 8) \cup Shl(BitsOf(Ts[sel1]), 4) \cup BitsOf(Ts[sel0])

SstEntry(o, m, sel0, sel1) ==
    /\ Callable
    /\ m \subseteq 0..31
    /\ trace' = << Call(o, cr \cup isr), Arg("mask", m, 0),
                   Arg(sel0, {}, Ts[sel0]), Arg(sel1, {}, Ts[sel1]) >>
    /\ pc' = "sst_assert"
    /\ UNCHANGED <<hw, owner>>

SetSampleTimesCall(m, sel0, sel1) == SstEntry("set_sample_times", m, sel0, sel1)

\* self.set_sample_times(0, Ts::Cyc160, Ts::Cyc160)
SetMaxSampleTimeCall == SstEntry("set_max_sample_time", {}, "Cyc160", "Cyc160")

\* faulty variant of SstAssert: the assertion is missing
SstAssert_Unchecked ==
    /\ pc = "sst_assert"
    /\ pc' = "sst_wr"
    /\ UNCHANGED <<hw, owner, trace>>

\* debug_assert!(self.adc.cr.read().adstart().is_not_active())
SstAssert ==
    /\ pc = "sst_assert"
    /\ IF "ADSTART" \notin cr
         THEN /\ pc' = "sst_wr"
              /\ UNCHANGED trace
         ELSE /\ pc' = "trapped"
              /\ Emit(Trap(op))
    /\ UNCHANGED <<hw, owner>>

\* self.adc.smpr.write(...)
SstWrite ==
    /\ pc = "sst_wr"
    /\ smpr' = SmprBits(trace[2].v, trace[3].r, trace[4].r)
    /\ trace' = trace \o << Wr("smpr", SmprBits(trace[2].v, trace[3].r, trace[4].r)),
                            Ret(op) >>
    /\ pc' = "idle"
    /\ UNCHANGED <<cr, isr, dmaen, enabling, ckmode, adcsel, adcen, owner>>
    /\ UNCHANGED <<cfgPend, chselr, dr, calfact, ccr, presc, rcc, tscal, ier, aes_sr>>

\* the arguments set_sample_times is called with while the whole driver is explored
SstArgs == { <<{0, 15}, "Cyc1", "Cyc160">> }

SetSampleTimes ==
    \/ \E a \in SstArgs : SetSampleTimesCall(a[1], a[2], a[3])
    \/ SstAssert
    \/ SstWrite

SetMaxSampleTime == SetMaxSampleTimeCall

--------------------------------------------------------------------------
(* The internal sources: enable_tsen, disable_tsen, enable_vref, ...       *)

\* the operation that sets each enable of ADC_CCR, and the one that clears it
SourceOps ==
    { <<"enable_tsen", "TSEN", TRUE>>, <<"disable_tsen", "TSEN", FALSE>>,
      <<"enable_vref", "VREFEN", TRUE>>, <<"disable_vref", "VREFEN", FALSE>>,
      <<"enable_vbat", "VBATEN", TRUE>>, <<"disable_vbat", "VBATEN", FALSE>> }

\* self.adc.ccr.modify(|_, w| w.<field>().enabled()) or .disabled()
SourceOp(o, b, on) ==
    /\ Callable
    /\ ccr' = IF on THEN ccr \cup {b} ELSE ccr \ {b}
    /\ trace' = << Call(o, cr \cup isr),
                   IF on THEN SetF("ccr", {b}) ELSE ClrF("ccr", {b}), Ret(o) >>
    /\ UNCHANGED <<cr, isr, dmaen, enabling, ckmode, adcsel, adcen, owner, pc>>
    /\ UNCHANGED <<cfgPend, chselr, smpr, dr, calfact, presc, rcc, tscal, ier, aes_sr>>

Source == \E t \in SourceOps : SourceOp(t[1], t[2], t[3])

--------------------------------------------------------------------------
(* Key128 of the AES driver.  A u128 is the set of the positions of its 1   *)
(* bits, as a u32 is.                                                      *)

\* key >> n on a u128
Shr128(key, n) == {i - n : i \in {j \in key : j >= n}}

\* x as u32: the low 32 bits
as_u32(x) == x \cap (0..31)

\* faulty variant of from_u128: the least significant word comes first
from_u128_LowFirst(key) ==
    [key |-> << as_u32(key), as_u32(Shr128(key, 32)),
                as_u32(Shr128(key, 64)), as_u32(Shr128(key, 96)) >>]

\* Key128::from_u128
from_u128(key) ==
    [key |-> << as_u32(Shr128(key, 96)), as_u32(Shr128(key, 64)),
                as_u32(Shr128(key, 32)), as_u32(key) >>]

\* Key128::from_u32: Key128 { key }
from_u32(key) == [key |-> key]

\* the four words of a Key128 that an operation returns, in their order
KeyWords(o, K) == [i \in 1..4 |-> Ev("word", o, K.key[i], i - 1)]

FromU128(key) ==
    /\ pc = "idle"
    /\ key \subseteq 0..127
    /\ trace' = << Ev("call", "from_u128", {}, 0), Arg("key", key, 0) >>
                   \o KeyWords("from_u128", from_u128(key))
    /\ UNCHANGED <<hw, owner, pc>>

FromU32(key) ==
    /\ pc = "idle"
    /\ key \in [1..4 -> SUBSET (0..31)]
    /\ trace' = << Ev("call", "from_u32", {}, 0) >>
                   \o [i \in 1..4 |-> Arg("key", key[i], i - 1)]
                   \o KeyWords("from_u32", from_u32(key))
    /\ UNCHANGED <<hw, owner, pc>>

--------------------------------------------------------------------------
(* Aes::encrypt_ecb.  A key is the sequence of its words: four for a        *)
(* Key128, eight for a Key256.                                             *)

\* the flags of AES_SR that encrypt_ecb reads
AesSrBits == {"CCF", "RDERR", "WRERR"}

\* Key::keysize: false for K128, true for K256
keysize(key) == Len(key) = 8

\* the registers of the Adc, which the AES driver leaves alone
adcRegs ==
    <<cr, isr, dmaen, enabling, ckmode, adcsel, adcen, cfgPend, chselr, smpr,
      dr, calfact, ccr, presc, rcc, tscal, ier, owner>>

\* the value encrypt_ecb writes to AES_CR
AesCrWord(key) ==
    {"EN", "CCFC", "ERRC", "CCFIE", "ERRIE", "DMAINEN", "DMAOUTEN"}
      \cup (IF keysize(key) THEN {"KEYSIZE"} ELSE {})

\* the key and the plaintext of the running encrypt_ecb
IsKeyArg(e) == e.k = "arg" /\ e.r = "key"
IsTextArg(e) == e.k = "arg" /\ e.r = "plaintext"
AesKey == [i \in DOMAIN SelectSeq(trace, IsKeyArg) |-> SelectSeq(trace, IsKeyArg)[i].v]
AesText == [i \in DOMAIN SelectSeq(trace, IsTextArg) |-> SelectSeq(trace, IsTextArg)[i].v]

\* the name of key register i
KeyReg(i) ==
    << "aes.keyr0", "aes.keyr1", "aes.keyr2", "aes.keyr3",
       "aes.keyr4", "aes.keyr5", "aes.keyr6", "aes.keyr7" >>[i + 1]

\* self.aes.cr.write(...): CCFC and ERRC clear the flags of AES_SR
EncryptEcbCall(key, plaintext) ==
    /\ pc = "idle"
    /\ Len(key) \in {4, 8} /\ Len(plaintext) = 4
    /\ aes_sr' = {}
    /\ trace' = << Ev("call", "encrypt_ecb", aes_sr, 0) >>
                   \o [i \in DOMAIN key |-> Arg("key", key[i], i - 1)]
                   \o [i \in 1..4 |-> Arg("plaintext", plaintext[i], i - 1)]
                   \o << Wr("aes.cr", AesCrWord(key)) >>
    /\ pc' = "aes_key"
    /\ UNCHANGED adcRegs

\* keyr0..keyr3, and keyr4..keyr7 if key.keysize()
AesWriteKey ==
    /\ pc = "aes_key"
    /\ trace' = trace \o [i \in 1..(IF keysize(AesKey) THEN 8 ELSE 4) |->
                             Wr(KeyReg(i - 1), AesKey[i])]
    /\ pc' = "aes_din"
    /\ UNCHANGED <<adcRegs, aes_sr>>

\* for &dw in plaintext.iter() { self.aes.dinr.write(...) }
AesWriteData ==
    /\ pc = "aes_din"
    /\ trace' = trace \o [i \in 1..4 |-> Wr("aes.dinr", AesText[i])]
    /\ pc' = "aes_poll"
    /\ UNCHANGED <<adcRegs, aes_sr>>

\* faulty variant of AesPoll: the read error is looked at first
AesPoll_ReadFirst ==
    /\ pc = "aes_poll"
    /\ aes_sr # {}
    /\ IF "RDERR" \in aes_sr
         THEN /\ trace' = trace \o << Ev("rd", "aes.sr", aes_sr, 0),
                                      Ev("ret", "encrypt_ecb", {"Err", "Read"}, 0) >>
              /\ pc' = "idle"
         ELSE IF "WRERR" \in aes_sr
         THEN /\ trace' = trace \o << Ev("rd", "aes.sr", aes_sr, 0),
                                      Ev("ret", "encrypt_ecb", {"Err", "Write"}, 0) >>
              /\ pc' = "idle"
         ELSE /\ trace' = trace \o << Ev("rd", "aes.sr", aes_sr, 0) >>
              /\ pc' = "aes_dout"
    /\ UNCHANGED <<adcRegs, aes_sr>>

\* the loop on AES_SR; a read that shows none of the three flags changes
\* nothing and is not a step
AesPoll ==
    /\ pc = "aes_poll"
    /\ aes_sr # {}
    /\ IF "WRERR" \in aes_sr
         THEN /\ trace' = trace \o << Ev("rd", "aes.sr", aes_sr, 0),
                                      Ev("ret", "encrypt_ecb", {"Err", "Write"}, 0) >>
              /\ pc' = "idle"
         ELSE IF "RDERR" \in aes_sr
         THEN /\ trace' = trace \o << Ev("rd", "aes.sr", aes_sr, 0),
                                      Ev("ret", "encrypt_ecb", {"Err", "Read"}, 0) >>
              /\ pc' = "idle"
         ELSE /\ trace' = trace \o << Ev("rd", "aes.sr", aes_sr, 0) >>
              /\ pc' = "aes_dout"
    /\ UNCHANGED <<adcRegs, aes_sr>>

\* for dw in ret.iter_mut() { *dw = self.aes.doutr.read().bits() }; Ok(ret)
AesReadOut(out) ==
    /\ pc = "aes_dout"
    /\ out \in [1..4 -> SUBSET (0..31)]
    /\ trace' = trace \o [i \in 1..4 |-> Ev("rd", "aes.doutr", out[i], 0)]
                       \o << Ev("ret", "encrypt_ecb", {"Ok"}, 0) >>
    /\ pc' = "idle"
    /\ UNCHANGED <<adcRegs, aes_sr>>

\* the peripheral finishes the computation on the four words it was given
HwAesDone ==
    /\ pc = "aes_poll"
    /\ "CCF" \notin aes_sr
    /\ aes_sr' = aes_sr \cup {"CCF"}
    /\ UNCHANGED <<adcRegs, pc, trace>>

\* the peripheral flags an access it did not expect (DMAINEN and DMAOUTEN
\* are on: another master may read or write the data registers)
HwAesError(f) ==
    /\ pc \in {"aes_key", "aes_din", "aes_poll", "aes_dout"}
    /\ f \in {"RDERR", "WRERR"} /\ f \notin aes_sr
    /\ aes_sr' = aes_sr \cup {f}
    /\ UNCHANGED <<adcRegs, pc, trace>>

--------------------------------------------------------------------------
(* The interrupt masks and set_isr *)

\* mod irq
irq_CCRDY == Shl(BitsOf(1), 13)
irq_EOCAL == Shl(BitsOf(1), 11)
irq_AWD3 == Shl(BitsOf(1), 9)
irq_AWD2 == Shl(BitsOf(1), 8)
irq_AWD1 == Shl(BitsOf(1), 7)
irq_OVR == Shl(BitsOf(1), 4)
irq_EOS == Shl(BitsOf(1), 3)
irq_EOC == Shl(BitsOf(1), 2)
irq_EOSMP == Shl(BitsOf(1), 1)
irq_ARDY == BitsOf(1)

irq_ALL ==
    irq_CCRDY \cup irq_EOCAL \cup irq_AWD3 \cup irq_AWD2 \cup irq_AWD1
      \cup irq_OVR \cup irq_EOS \cup irq_EOC \cup irq_EOSMP \cup irq_ARDY

\* the flags of ADC_ISR the model keeps, at the masks that clear them
IsrFlagsIn(w) ==
    {f \in IsrBits :
        \/ f = "ADRDY" /\ irq_ARDY \subseteq w
        \/ f = "EOC" /\ irq_EOC \subseteq w
        \/ f = "EOCAL" /\ irq_EOCAL \subseteq w
        \/ f = "CCRDY" /\ irq_CCRDY \subseteq w}

\* faulty variant of SetIsr: the argument is written as it is
SetIsr_Unmasked(x) ==
    /\ Callable
    /\ x \subseteq 0..31
    /\ WriteIsr(IsrFlagsIn(x))
    /\ trace' = << Call("set_isr", cr \cup isr), Arg("isr", x, 0),
                   Ev("wr", "isr.bits", x, 0), Ret("set_isr") >>
    /\ UNCHANGED <<cr, dmaen, enabling, ckmode, adcsel, adcen, ext, owner, pc>>

\* Adc::set_isr: self.adc.isr.write(|w| unsafe { w.bits(isr & irq::ALL) })
SetIsr(x) ==
    /\ Callable
    /\ x \subseteq 0..31
    /\ WriteIsr(IsrFlagsIn(x \cap irq_ALL))
    /\ trace' = << Call("set_isr", cr \cup isr), Arg("isr", x, 0),
                   Ev("wr", "isr.bits", x \cap irq_ALL, 0), Ret("set_isr") >>
    /\ UNCHANGED <<cr, dmaen, enabling, ckmode, adcsel, adcen, ext, owner, pc>>

\* Adc::set_ier: self.adc.ier.write(|w| unsafe { w.bits(ier) })
SetIer(x) ==
    /\ Callable
    /\ x \subseteq 0..31
    /\ ier' = x
    /\ trace' = << Call("set_ier", cr \cup isr), Arg("ier", x, 0),
                   Ev("wr", "ier", x, 0), Ret("set_ier") >>
    /\ UNCHANGED <<cr, isr, dmaen, enabling, ckmode, adcsel, adcen, owner, pc>>
    /\ UNCHANGED <<cfgPend, chselr, smpr, dr, calfact, ccr, presc, rcc, tscal, aes_sr>>

--------------------------------------------------------------------------
(* Ratio<i16>, as temperature uses it.  An operation that panics (overflow  *)
(* of an i16, division by zero) yields Panicked.                           *)

RECURSIVE GCD(_, _)
GCD(a, b) ==
    IF b = 0 THEN a ELSE CHOOSE g \in {GCD(b, r) : r \in {a % b}} : TRUE

TS_CAL1_TEMP == 30
TS_CAL2_TEMP == 130
TS_CAL_TEMP_DELTA == TS_CAL2_TEMP - TS_CAL1_TEMP

\* the values of an i16
I16 == -32768..32767

Abs(x) == IF x < 0 THEN 0 - x ELSE x

\* u16::wrapping_sub
wrapping_sub(a, b) == (a - b + 65536) % 65536

\* u16 as i16
as_i16(u) == IF u >= 32768 THEN u - 65536 ELSE u

\* no Ratio an operation returns has the denominator 0
Panicked == Ratio(0, 0)

\* Ratio::reduce: the fraction in lowest terms with a positive denominator
reduce(n, d) ==
    IF d = 0 THEN Panicked
    ELSE IF n = 0 THEN Ratio(0, 1)
    ELSE IF n = d THEN Ratio(1, 1)
    ELSE LET g  == GCD(Abs(n), Abs(d))
             rn == n \div g
             rd == d \div g
         IN  IF rd > 0 THEN Ratio(rn, rd)
             ELSE IF 0 - rn \in I16 /\ 0 - rd \in I16 THEN Ratio(0 - rn, 0 - rd)
             ELSE Panicked

\* Ratio::new: new_raw of the values of its arguments, then reduce
Ratio_new(n, d) == CHOOSE q \in {reduce(x, y) : x \in {n}, y \in {d}} : TRUE

\* Ratio<i16> * i16: the common factor of the denominator and k is removed
\* first, then numer * (k / gcd) is formed in i16
Ratio_mul(r, k) ==
    LET g == GCD(Abs(r.denom), Abs(k))
    IN  IF g = 0 \/ g \notin I16 THEN Panicked
        ELSE IF r.numer * (k \div g) \notin I16 THEN Panicked
        ELSE Ratio_new(r.numer * (k \div g), r.denom \div g)

\* Ratio<i16> + i16: numer + denom * k over denom, formed in i16
Ratio_add(r, k) ==
    IF r.denom * k \notin I16 THEN Panicked
    ELSE IF r.numer + r.denom * k \notin I16 THEN Panicked
    ELSE Ratio_new(r.numer + r.denom * k, r.denom)

\* the arithmetic of temperature on the corrected sample ts_data:
\* ret * (ts_data.wrapping_sub(ts_cal1) as i16) + TS_CAL1_TEMP, with
\* ret = Ratio::new_raw(TS_CAL_TEMP_DELTA, ts_cal2.wrapping_sub(ts_cal1) as i16)
temperature_of(ts_data, cal) ==
    LET ret  == Ratio(TS_CAL_TEMP_DELTA, as_i16(wrapping_sub(cal.cal2, cal.cal1)))
        prod == Ratio_mul(ret, as_i16(wrapping_sub(ts_data, cal.cal1)))
    IN  IF prod = Panicked THEN Panicked ELSE Ratio_add(prod, TS_CAL1_TEMP)

--------------------------------------------------------------------------
(* The conversions: temperature, vref, vbat, dac, pin *)

ConvOps == {"temperature", "vref", "vbat", "dac", "pin"}

\* the enable of ADC_CCR an operation asserts, beside the peripheral's own
SrcBit(o) ==
    CASE o = "temperature" -> "TSEN"
      [] o = "vref" -> "VREFEN"
      [] o = "vbat" -> "VBATEN"
      [] OTHER -> "NONE"

\* the channel the running operation converts
ConvCh ==
    CASE op = "temperature" -> "Vts"
      [] op = "vref" -> "Vref"
      [] op = "vbat" -> "Vbat"
      [] op = "dac" -> "Dac"
      [] OTHER -> trace[2].r

\* temperature, vref, vbat or dac is called
ConvCall(o) ==
    /\ Callable
    /\ o \in ConvOps \ {"pin"}
    /\ trace' = << Call(o, cr \cup isr) >>
    /\ pc' = "cv_en"
    /\ UNCHANGED <<hw, owner>>

\* pin is called with a pin whose channel is ch
PinCall(ch) ==
    /\ Callable
    /\ ch \in PinCh
    /\ trace' = << Call("pin", cr \cup isr), Arg(ch, {}, Ch[ch]) >>
    /\ pc' = "cv_en"
    /\ UNCHANGED <<hw, owner>>

\* faulty variant of CvAssertEnabled: the channel is selected before the check
CvAssertEnabled_AfterSelect ==
    /\ pc = "cv_en"
    /\ chselr' = mask(ConvCh)
    /\ cfgPend' = TRUE
    /\ IF is_enabled
         THEN /\ pc' = IF SrcBit(op) = "NONE" THEN "cv_chsel" ELSE "cv_src"
              /\ Emit(Wr("chselr", mask(ConvCh)))
         ELSE /\ pc' = "trapped"
              /\ trace' = trace \o << Wr("chselr", mask(ConvCh)), Trap(op) >>
    /\ UNCHANGED <<cr, isr, dmaen, enabling, ckmode, adcsel, adcen, owner>>
    /\ UNCHANGED <<smpr, dr, calfact, ccr, presc, rcc, tscal, ier, aes_sr>>

\* debug_assert!(self.is_enabled())
CvAssertEnabled ==
    /\ pc = "cv_en"
    /\ IF is_enabled
         THEN /\ pc' = IF SrcBit(op) = "NONE" THEN "cv_chsel" ELSE "cv_src"
              /\ UNCHANGED trace
         ELSE /\ pc' = "trapped"
              /\ Emit(Trap(op))
    /\ UNCHANGED <<hw, owner>>

\* faulty variant of CvAssertSource: the assertion is missing
CvAssertSource_Unchecked ==
    /\ pc = "cv_src"
    /\ pc' = "cv_chsel"
    /\ UNCHANGED <<hw, owner, trace>>

\* debug_assert!(self.is_tsen_enabled()), is_vref_enabled(), is_vbat_enabled()
CvAssertSource ==
    /\ pc = "cv_src"
    /\ IF SrcBit(op) \in ccr
         THEN /\ pc' = "cv_chsel"
              /\ UNCHANGED trace
         ELSE /\ pc' = "trapped"
              /\ Emit(Trap(op))
    /\ UNCHANGED <<hw, owner>>

\* faulty variant of CvSetChsel: the channel is added to the selection
CvSetChsel_Accumulate ==
    /\ pc = "cv_chsel"
    /\ chselr' = chselr \cup mask(ConvCh)
    /\ cfgPend' = TRUE
    /\ Emit(Wr("chselr", chselr \cup mask(ConvCh)))
    /\ pc' = "cv_ccrdy"
    /\ UNCHANGED <<cr, isr, dmaen, enabling, ckmode, adcsel, adcen, owner>>
    /\ UNCHANGED <<smpr, dr, calfact, ccr, presc, rcc, tscal, ier, aes_sr>>

\* set_chsel: self.adc.chselr0().write(|w| w.chsel().bits(ch))
CvSetChsel ==
    /\ pc = "cv_chsel"
    /\ chselr' = mask(ConvCh)
    /\ cfgPend' = TRUE
    /\ Emit(Wr("chselr", mask(ConvCh)))
    /\ pc' = "cv_ccrdy"
    /\ UNCHANGED <<cr, isr, dmaen, enabling, ckmode, adcsel, adcen, owner>>
    /\ UNCHANGED <<smpr, dr, calfact, ccr, presc, rcc, tscal, ier, aes_sr>>

\* cfg_ch_seq: while self.adc.isr.read().ccrdy().is_not_complete() {}
CvWaitCcrdy ==
    /\ pc = "cv_ccrdy"
    /\ "CCRDY" \in isr
    /\ Emit(Obs("ccrdy"))
    /\ pc' = "cv_start"
    /\ UNCHANGED <<hw, owner>>

\* self.adc.cr.write(|w| w.adstart().start_conversion())
CvStart ==
    /\ pc = "cv_start"
    /\ WriteCr({"ADSTART"})
    /\ Emit(Wr("cr", {"ADSTART"}))
    /\ pc' = IF op = "temperature" THEN "cv_calfact" ELSE "cv_eoc"
    /\ UNCHANGED <<isr, dmaen, ckmode, adcsel, adcen, ext, owner>>

\* temperature: ts_cal(), then self.adc.calfact.read().calfact().bits()
CvReadCalfact ==
    /\ pc = "cv_calfact"
    /\ trace' = trace \o << Ev("rd", "ts_cal1", {}, tscal.cal1),
                            Ev("rd", "ts_cal2", {}, tscal.cal2),
                            Ev("rd", "calfact", {}, calfact) >>
    /\ pc' = "cv_eoc"
    /\ UNCHANGED <<hw, owner>>

\* faulty variant of CvWaitEoc: the poll of EOC is missing
CvWaitEoc_NoPoll ==
    /\ pc = "cv_eoc"
    /\ Emit(Obs("eoc"))
    /\ pc' = "cv_dr"
    /\ UNCHANGED <<hw, owner>>

\* data: while self.adc.isr.read().eoc().is_not_complete() {}
CvWaitEoc ==
    /\ pc = "cv_eoc"
    /\ "EOC" \in isr
    /\ Emit(Obs("eoc"))
    /\ pc' = "cv_dr"
    /\ UNCHANGED <<hw, owner>>

\* data: self.adc.dr.read().data().bits()
CvReadDr ==
    /\ pc = "cv_dr"
    /\ Emit(Ev("rd", "dr", {}, dr))
    /\ pc' = "cv_clr"
    /\ UNCHANGED <<hw, owner>>

\* u16::saturating_add
saturating_add(a, b) == IF a + b > 65535 THEN 65535 ELSE a + b

\* the calibration factor temperature has read
CalfactRead == (CHOOSE i \in DOMAIN trace : trace[i].k = "rd" /\ trace[i].r = "calfact")

\* the corrected sample of temperature: data().saturating_add(calfact)
ts_data(d) == saturating_add(d, trace[CalfactRead].n)

\* what the running conversion hands back once data() has read the sample d:
\* the sample itself, or for temperature the Ratio<i16> computed from the
\* corrected sample
ConvResult(d) ==
    IF op = "temperature"
      THEN CHOOSE e \in { Ev("ret", op, BitsOf(t.denom), t.numer) :
                             t \in {temperature_of(ts_data(d), tscal)} } : TRUE
      ELSE RetVal(op, d)

\* data: self.adc.isr.write(|w| w.eoc().set_bit()), and the return; the
\* arithmetic of temperature panics where an i16 overflows
CvClearEoc ==
    /\ pc = "cv_clr"
    /\ WriteIsr({"EOC"})
    /\ IF op = "temperature"
            /\ temperature_of(ts_data(trace[Len(trace)].n), tscal) = Panicked
         THEN /\ trace' = trace \o << Wr("isr", {"EOC"}), Ev("panic", op, {}, 0) >>
              /\ pc' = "panicked"
         ELSE /\ trace' = trace \o << Wr("isr", {"EOC"}),
                                      ConvResult(trace[Len(trace)].n) >>
              /\ pc' = "idle"
    /\ UNCHANGED <<cr, dmaen, enabling, ckmode, adcsel, adcen, ext, owner>>

\* the pins the conversions are explored with
PinsExplored == {"In0", "In11"}

Conversion ==
    \/ \E o \in ConvOps \ {"pin"} : ConvCall(o)
    \/ \E ch \in PinsExplored : PinCall(ch)
    \/ CvAssertEnabled
    \/ CvAssertSource
    \/ CvSetChsel
    \/ CvWaitCcrdy
    \/ CvStart
    \/ CvReadCalfact
    \/ CvWaitEoc
    \/ CvReadDr
    \/ CvClearEoc

--------------------------------------------------------------------------
(* Ts::cycles / Ts::as_duration.  A u64, like a u32, is the set of the      *)
(* positions of its 1 bits; the arithmetic below is exact on such sets.    *)

\* Ts::MAX, Ts::MIN and Ts::default()
Ts_MAX == "Cyc160"
Ts_MIN == "Cyc1"
Ts_default == "Cyc1"

\* faulty variant of cycles: the half cycle is missing
cycles_Whole(ts) ==
    CASE ts = "Cyc1" -> Ratio(2, 2)
      [] ts = "Cyc3" -> Ratio(6, 2)
      [] ts = "Cyc7" -> Ratio(14, 2)
      [] ts = "Cyc12" -> Ratio(24, 2)
      [] ts = "Cyc19" -> Ratio(38, 2)
      [] ts = "Cyc39" -> Ratio(78, 2)
      [] ts = "Cyc79" -> Ratio(158, 2)
      [] ts = "Cyc160" -> Ratio(320, 2)

\* faulty variant of cycles: 19.5 and 39.5 are exchanged
cycles_Unordered(ts) ==
    CASE ts = "Cyc1" -> Ratio(3, 2)
      [] ts = "Cyc3" -> Ratio(7, 2)
      [] ts = "Cyc7" -> Ratio(15, 2)
      [] ts = "Cyc12" -> Ratio(25, 2)
      [] ts = "Cyc19" -> Ratio(79, 2)
      [] ts = "Cyc39" -> Ratio(39, 2)
      [] ts = "Cyc79" -> Ratio(159, 2)
      [] ts = "Cyc160" -> Ratio(321, 2)

\* Ts::cycles
cycles(ts) ==
    CASE ts = "Cyc1" -> Ratio(3, 2)
      [] ts = "Cyc3" -> Ratio(7, 2)
      [] ts = "Cyc7" -> Ratio(15, 2)
      [] ts = "Cyc12" -> Ratio(25, 2)
      [] ts = "Cyc19" -> Ratio(39, 2)
      [] ts = "Cyc39" -> Ratio(79, 2)
      [] ts = "Cyc79" -> Ratio(159, 2)
      [] ts = "Cyc160" -> Ratio(321, 2)

\* a return with a Ratio<u16>: the numerator, and the bits of the denominator
RetRatio(o, q) == Ev("ret", o, BitsOf(q.denom), q.numer)

\* a call of Ts::cycles, from anywhere in the program
Cycles(ts) ==
    /\ pc = "idle"
    /\ ts \in DOMAIN Ts
    /\ trace' = << Ev("call", "cycles", {}, 0), Arg(ts, {}, Ts[ts]),
                   RetRatio("cycles", cycles(ts)) >>
    /\ UNCHANGED <<hw, owner, pc>>

\* the highest position of a set of bit positions
MaxBit(b) == IF b = {} THEN 0 ELSE CHOOSE i \in b : \A j \in b : j <= i

\* a + b: bit i of the sum is a[i] xor b[i] xor the carry into i, and a
\* carry arrives from the nearest lower position where both have a 1 when
\* every position in between has a 1 in one of them
CarryInto(a, b, i) ==
    \E j \in 0..(i - 1) :
        /\ j \in a /\ j \in b
        /\ \A k \in (j + 1)..(i - 1) : k \in a \/ k \in b

Plus(a, b) ==
    {i \in 0..(MaxBit(a \cup b) + 1) :
        ((i \in a) # (i \in b)) # CarryInto(a, b, i)}

\* a * b: the sum of b << i over the 1 bits i of a
RECURSIVE TimesFrom(_, _, _)
TimesFrom(a, b, acc) ==
    IF a = {} \/ b = {} THEN acc
    ELSE LET i == MaxBit(a)
         IN  TimesFrom(a \ {i}, b, Plus(acc, {j + i : j \in b}))

Times(a, b) == IF b = {} THEN {} ELSE TimesFrom(a, b, {})

\* a < b
Less(a, b) == a # b /\ MaxBit((a \ b) \cup (b \ a)) \in b

\* a - b, for b <= a: bit i is a[i] xor b[i] xor the borrow from i, which
\* comes from the nearest lower position where a has 0 and b has 1 unless a
\* position in between has a 1 in a and a 0 in b
BorrowFrom(a, b, i) ==
    \E j \in 0..(i - 1) :
        /\ j \notin a /\ j \in b
        /\ \A k \in (j + 1)..(i - 1) : ~(k \in a /\ k \notin b)

Minus(a, b) ==
    {i \in 0..MaxBit(a) : ((i \in a) # (i \in b)) # BorrowFrom(a, b, i)}

\* n / d on u64, for d # 0: the quotient, bit by bit from the top
RECURSIVE QuotFrom(_, _, _)
QuotFrom(r, d, i) ==
    IF i < 0 THEN {}
    ELSE LET sh == {j + i : j \in d}
         IN  IF Less(r, sh) THEN QuotFrom(r, d, i - 1)
             ELSE {i} \cup QuotFrom(Minus(r, sh), d, i - 1)

Quot(n, d) == QuotFrom(n, d, 63)

\* faulty variant of saturating_mul: the product saturates at 32 bits
saturating_mul_u32(a, b) ==
    LET p == Times(a, b) IN IF p \subseteq 0..31 THEN p ELSE 0..31

\* u64::saturating_mul
saturating_mul(a, b) ==
    LET p == Times(a, b) IN IF p \subseteq 0..63 THEN p ELSE 0..63

\* Ts::as_duration is entered with the sample time ts and the u32 hz
AsDurationCall(ts, hz) ==
    /\ pc = "idle"
    /\ ts \in DOMAIN Ts /\ hz \subseteq 0..31
    /\ trace' = << Ev("call", "as_duration", {}, 0), Arg(ts, {}, Ts[ts]),
                   Arg("hz", hz, 0) >>
    /\ pc' = "ad_numer"
    /\ UNCHANGED <<hw, owner>>

\* let numer: u64 = (*self.cycles().numer() as u64).saturating_mul(1_000_000_000)
AdNumer ==
    /\ pc = "ad_numer"
    /\ trace' = Append(trace,
                   Ev("let", "numer",
                      saturating_mul(BitsOf(cycles(trace[2].r).numer),
                                     BitsOf(1000000000)), 0))
    /\ pc' = "ad_denom"
    /\ UNCHANGED <<hw, owner>>

\* let denom: u64 = (*self.cycles().denom() as u64).saturating_mul(hz as u64)
AdDenom ==
    /\ pc = "ad_denom"
    /\ trace' = Append(trace,
                   Ev("let", "denom",
                      saturating_mul(BitsOf(cycles(trace[2].r).denom),
                                     trace[3].v), 0))
    /\ pc' = "ad_div"
    /\ UNCHANGED <<hw, owner>>

\* Duration::from_nanos(numer / denom); a Duration is its count of
\* nanoseconds, and a division by zero panics
AdDiv ==
    /\ pc = "ad_div"
    /\ IF trace[5].v = {}
         THEN /\ trace' = Append(trace, Ev("panic", "as_duration", {}, 0))
              /\ pc' = "panicked"
         ELSE /\ trace' = Append(trace,
                     Ev("ret", "as_duration", Quot(trace[4].v, trace[5].v), 0))
              /\ pc' = "idle"
    /\ UNCHANGED <<hw, owner>>

\* the clock frequencies as_duration is explored with: 0, 1, 2, 3, 7, 1 kHz,
\* 32.768 kHz, 1 MHz, 16 MHz, 48 MHz, 1 GHz, 2^31, 2^32 - 2 and 2^32 - 1
HzExplored ==
    { {}, BitsOf(1), BitsOf(2), BitsOf(3), BitsOf(7), BitsOf(1000),
      BitsOf(32768), BitsOf(1000000), BitsOf(16000000), BitsOf(48000000),
      BitsOf(1000000000), {31}, 1..31, 0..31 }

AsDuration ==
    \/ \E ts \in DOMAIN Ts, hz \in HzExplored : AsDurationCall(ts, hz)
    \/ AdNumer
    \/ AdDenom
    \/ AdDiv

--------------------------------------------------------------------------
(* clock_hz *)

\* Ratio<u32> / u32: the quotient, in lowest terms
RatioDiv(r, k) ==
    LET g == GCD(r.numer, k)
        n == r.numer \div g
        d == r.denom * (k \div g)
    IN  Ratio(n \div GCD(n, d), d \div GCD(n, d))

\* Ratio::to_integer: rounds toward zero
to_integer(r) == r.numer \div r.denom

\* crate::rcc::pllpclk: the frequency of the PLL "P" output
pllpclk == rcc.pllp

\* crate::rcc::sysclk: the frequency of the system clock
sysclk == rcc.sysclk

\* faulty variant of prescaler: a reserved code is taken as 2
prescaler_ReservedAs2 ==
    CASE presc = "DIV1" -> 1
      [] presc = "DIV2" -> 2
      [] presc = "DIV4" -> 4
      [] presc = "DIV6" -> 6
      [] presc = "DIV8" -> 8
      [] presc = "DIV10" -> 10
      [] presc = "DIV12" -> 12
      [] presc = "DIV16" -> 16
      [] presc = "DIV32" -> 32
      [] presc = "DIV64" -> 64
      [] presc = "DIV128" -> 128
      [] presc = "DIV256" -> 256
      [] OTHER -> 2

\* the divider each variant of the prescaler field stands for; a reserved
\* code is reported and taken as 1
prescaler ==
    CASE presc = "DIV1" -> 1
      [] presc = "DIV2" -> 2
      [] presc = "DIV4" -> 4
      [] presc = "DIV6" -> 6
      [] presc = "DIV8" -> 8
      [] presc = "DIV10" -> 10
      [] presc = "DIV12" -> 12
      [] presc = "DIV16" -> 16
      [] presc = "DIV32" -> 32
      [] presc = "DIV64" -> 64
      [] presc = "DIV128" -> 128
      [] presc = "DIV256" -> 256
      [] OTHER -> 1

\* the source the clock-tree multiplexer selects
src ==
    CASE adcsel = "NOCLOCK" -> Ratio(0, 1)
      [] adcsel = "HSI16" -> Ratio(16000000, 1)
      [] adcsel = "PLLP" -> pllpclk
      [] OTHER -> sysclk

\* faulty variant of clock_hz: the prescaler is not applied
clock_hz_NoPrescaler ==
    to_integer(CASE ckmode = "ADCLK" -> src
                 [] ckmode = "PCLK_DIV2" -> RatioDiv(pllpclk, 2)
                 [] ckmode = "PCLK_DIV4" -> RatioDiv(pllpclk, 4)
                 [] OTHER -> pllpclk)

\* Adc::clock_hz
clock_hz ==
    to_integer(CASE ckmode = "ADCLK" -> RatioDiv(src, prescaler)
                 [] ckmode = "PCLK_DIV2" -> RatioDiv(pllpclk, 2)
                 [] ckmode = "PCLK_DIV4" -> RatioDiv(pllpclk, 4)
                 [] OTHER -> pllpclk)

\* error!("Reserved ADC prescaler value ..."): the diagnostic of clock_hz
ReservedPresc == Ev("log", "error", {}, 0)

\* a call of clock_hz: the prescaler field is decoded in the asynchronous
\* mode only, and a reserved code is reported there
ClockHz ==
    /\ Callable
    /\ trace' = << Call("clock_hz", cr \cup isr) >>
                 \o (IF ckmode = "ADCLK" /\ presc = "RESERVED"
                       THEN << ReservedPresc >> ELSE << >>)
                 \o << RetVal("clock_hz", clock_hz) >>
    /\ UNCHANGED <<hw, owner, pc>>

--------------------------------------------------------------------------
Next ==
    \/ Hw
    \/ \E clk \in Clk : New(clk)
    \/ Steal
    \/ Free
    \/ Enable
    \/ StartDisable
    \/ EnableVreg
    \/ DisableVreg
    \/ StartCalibrate
    \/ Calibrate
    \/ SetSampleTimes
    \/ SetMaxSampleTime

Spec == Init /\ [][Next]_vars

\* The conversions are explored from the power-on state of the peripheral,
\* through an Adc made by new: the driver's own operations are then the only
\* source of conversions.
ConvInit ==
    /\ cr = {} /\ isr = {} /\ dmaen = FALSE /\ enabling = FALSE
    /\ ckmode = "ADCLK" /\ adcsel = "NOCLOCK" /\ adcen = FALSE
    /\ cfgPend = FALSE
    /\ chselr = {} /\ smpr = {} /\ dr = 0 /\ calfact = 0
    /\ ccr = {}
    /\ presc = "DIV1"
    /\ rcc = RccDefault
    /\ tscal = TsCalDefault
    /\ ier = {}
    /\ aes_sr = {}
    /\ owner = "pac"
    /\ pc = "idle"
    /\ trace = <<>>

\* No conversion is ever in progress here when start_disable is entered (a
\* conversion operation returns only after the end of its conversion), so
\* the stop of a conversion, which Spec explores, has no part in ConvNext.
ConvNext ==
    \/ HwReady \/ HwEoc \/ HwDisableDone \/ HwCalDone \/ HwCcrdy
    \/ New("RccHsi")
    \/ Enable
    \/ StartDisableCall \/ SdCheckAden \/ SdSetAddis
    \/ EnableVreg
    \/ StartCalibrate
    \/ Calibrate
    \/ Source
    \/ Conversion

ConvSpec == ConvInit /\ [][ConvNext]_vars

\* The operations that carry a debug assertion, explored on a peripheral
\* found in any state: Adc::steal takes it as it is.
StolenNext ==
    \/ Hw \/ HwCcrdy
    \/ Steal
    \/ StartCalibrate
    \/ SetSampleTimes
    \/ SourceOp("enable_tsen", "TSEN", TRUE)
    \/ Conversion

StolenSpec == Init /\ [][StolenNext]_vars

\* The masks set_sample_times is given when it is explored on its own: the
\* three channels of its documentation, every bit of the word, and the two
\* reserved channels with the last channel and bits above it.
SampleMasks ==
    { mask("In0") \cup mask("In1") \cup mask("Vbat"), 0..31, {15, 16, 17, 18, 31} }

\* set_sample_times with any sample times, and Ch::mask on any channel, on an
\* Adc made by new
SampleNext ==
    \/ New("RccHsi")
    \/ \E m \in SampleMasks, sel0, sel1 \in DOMAIN Ts : SetSampleTimesCall(m, sel0, sel1)
    \/ SstAssert
    \/ SstWrite
    \/ SetMaxSampleTime
    \/ \E ch \in DOMAIN Ch : ChMask(ch)

SampleSpec == ConvInit /\ [][SampleNext]_vars

\* the frequencies the clock tree is explored with: off, whole, fractional
Freqs == {Ratio(0, 1), Ratio(48000000, 1), Ratio(32000000, 3)}

\* clock_hz on a peripheral whose clock configuration is anything the
\* registers can hold, under any clock tree; new sets the configuration of
\* its clk argument, steal takes the one it finds.
ClockInit ==
    /\ cr = {} /\ isr = {} /\ dmaen = FALSE /\ enabling = FALSE
    /\ ckmode \in {"ADCLK", "PCLK_DIV2", "PCLK_DIV4", "PCLK"}
    /\ adcsel \in {"NOCLOCK", "HSI16", "PLLP", "SYSCLK"}
    /\ adcen = TRUE
    /\ cfgPend = FALSE
    /\ chselr = {} /\ smpr = {} /\ dr = 0 /\ calfact = 0
    /\ ccr = {}
    /\ presc \in Presc
    /\ rcc \in [pllp : Freqs, sysclk : Freqs, pclk : Freqs]
    /\ tscal = TsCalDefault
    /\ ier = {}
    /\ aes_sr = {}
    /\ owner = "pac"
    /\ pc = "idle"
    /\ trace = <<>>

ClockNext ==
    \/ \E clk \in Clk : New(clk)
    \/ Steal
    \/ Free
    \/ ClockHz

ClockSpec == ClockInit /\ [][ClockNext]_vars

\* clock_hz on an Adc that can only have been made by new: the ADC clock is
\* off at the start, so that steal has nothing to take, and the clock
\* configuration is whatever an earlier user left.
NewClockInit ==
    /\ cr = {} /\ isr = {} /\ dmaen = FALSE /\ enabling = FALSE
    /\ ckmode \in {"ADCLK", "PCLK_DIV2", "PCLK_DIV4", "PCLK"}
    /\ adcsel \in {"NOCLOCK", "HSI16", "PLLP", "SYSCLK"}
    /\ adcen = FALSE
    /\ cfgPend = FALSE
    /\ chselr = {} /\ smpr = {} /\ dr = 0 /\ calfact = 0
    /\ ccr = {}
    /\ presc \in Presc
    /\ rcc \in [pllp : Freqs, sysclk : Freqs, pclk : Freqs]
    /\ tscal = TsCalDefault
    /\ ier = {}
    /\ aes_sr = {}
    /\ owner = "pac"
    /\ pc = "idle"
    /\ trace = <<>>

NewClockNext ==
    \/ \E clk \in Clk : New(clk)
    \/ Free
    \/ ClockHz

NewClockSpec == NewClockInit /\ [][NewClockNext]_vars

\* the words set_isr is given: nothing, every mask, every bit, single
\* flags, reserved bits alone and reserved bits mixed with flags
IsrArgs ==
    { {}, irq_ALL, 0..31, irq_EOC, irq_ARDY \cup irq_EOCAL, {5, 6},
      {10, 12, 31}, irq_CCRDY \cup {14}, irq_OVR \cup irq_AWD2 \cup {30} }

\* set_isr and set_ier on an Adc whose status flags are in any state
IrqInit ==
    /\ cr = {"ADEN", "ADVREGEN"} /\ isr \in SUBSET IsrBits
    /\ dmaen = FALSE /\ enabling = FALSE
    /\ ckmode = "ADCLK" /\ adcsel = "HSI16" /\ adcen = TRUE
    /\ cfgPend = FALSE
    /\ chselr = {} /\ smpr = {} /\ dr = 0 /\ calfact = 0
    /\ ccr = {}
    /\ presc = "DIV1"
    /\ rcc = RccDefault
    /\ tscal = TsCalDefault
    /\ ier = {}
    /\ aes_sr = {}
    /\ owner = "drv"
    /\ pc = "idle"
    /\ trace = <<>>

IrqNext ==
    \/ \E x \in IsrArgs : SetIsr(x)
    \/ \E x \in IsrArgs : SetIer(x)

IrqSpec == IrqInit /\ [][IrqNext]_vars

\* 0xAAAAAAAA_BBBBBBBB_CCCCCCCC_DDDDDDDD, the key of the documentation
DocKey ==
    {i \in 96..127 : i % 2 = 1} \cup {i \in 64..95 : i % 4 \in {0, 1, 3}}
      \cup {i \in 32..63 : i % 4 \in {2, 3}} \cup {i \in 0..31 : i % 4 \in {0, 2, 3}}

\* the keys explored: every key of one bit, no bit, every bit, the key of the
\* documentation, and keys whose bits lie on both sides of a word boundary
KeysExplored ==
    { {i} : i \in 0..127 } \cup
    { {}, 0..127, DocKey, {0, 32}, {31, 32}, {63, 64}, {95, 96}, {0, 127},
      {31, 63, 95, 127}, 0..31, 32..63, 64..95, 96..127 }

\* the word arrays explored: those of the keys explored, in both orders
WordsExplored ==
    {from_u128(k).key : k \in KeysExplored}
      \cup {from_u128_LowFirst(k).key : k \in {DocKey, {0}, {127}}}

\* Key128::from_u128 and Key128::from_u32, which need no peripheral
KeyNext ==
    \/ \E key \in KeysExplored : FromU128(key)
    \/ \E key \in WordsExplored : FromU32(key)

KeySpec == ConvInit /\ [][KeyNext]_vars

\* the keys encrypt_ecb is explored with, of both sizes, the plaintexts and
\* the words the peripheral gives back
AesKeysExplored ==
    { from_u128(DocKey).key, from_u128({0}).key,
      [i \in 1..8 |-> {i}], [i \in 1..8 |-> IF i <= 4 THEN {} ELSE 0..31] }
AesTextsExplored == { [i \in 1..4 |-> {i - 1}], [i \in 1..4 |-> 0..31] }
AesOutsExplored == { [i \in 1..4 |-> {}], [i \in 1..4 |-> {31 - i}] }

\* encrypt_ecb on an AES peripheral whose status flags are in any state
AesInit ==
    /\ cr = {} /\ isr = {} /\ dmaen = FALSE /\ enabling = FALSE
    /\ ckmode = "ADCLK" /\ adcsel = "NOCLOCK" /\ adcen = FALSE
    /\ cfgPend = FALSE
    /\ chselr = {} /\ smpr = {} /\ dr = 0 /\ calfact = 0
    /\ ccr = {}
    /\ presc = "DIV1"
    /\ rcc = RccDefault
    /\ tscal = TsCalDefault
    /\ ier = {}
    /\ aes_sr \in SUBSET AesSrBits
    /\ owner = "pac"
    /\ pc = "idle"
    /\ trace = <<>>

AesNext ==
    \/ \E key \in AesKeysExplored, text \in AesTextsExplored : EncryptEcbCall(key, text)
    \/ AesWriteKey
    \/ AesWriteData
    \/ AesPoll
    \/ \E out \in AesOutsExplored : AesReadOut(out)
    \/ HwAesDone
    \/ \E f \in {"RDERR", "WRERR"} : HwAesError(f)

AesSpec == AesInit /\ [][AesNext]_vars

\* the calibration factors, the factory words and the samples temperature
\* is explored with: no correction, the 10 of the documentation and the
\* largest factor; constants 400, 301 and 39900 apart and a pair that is not
\* in order; samples below, at and above the calibration points and at the
\* ends of the register
CalfactExplored == {0, 10, 127}
TsCalExplored ==
    { [cal1 |-> 1400, cal2 |-> 1800], [cal1 |-> 944, cal2 |-> 1245],
      [cal1 |-> 100, cal2 |-> 40000], [cal1 |-> 1800, cal2 |-> 1400] }
SamplesExplored == {0, 934, 1180, 1390, 1500, 1790, 1791, 4095, 65535}

\* temperature on an Adc that is enabled and whose temperature sensor is on
TempInit ==
    /\ cr = {"ADEN", "ADVREGEN"} /\ isr = {"ADRDY"}
    /\ dmaen = FALSE /\ enabling = FALSE
    /\ ckmode = "ADCLK" /\ adcsel = "HSI16" /\ adcen = TRUE
    /\ cfgPend = FALSE
    /\ chselr = {} /\ smpr = {} /\ dr = 0
    /\ calfact \in CalfactExplored
    /\ ccr = {"TSEN"}
    /\ presc = "DIV1"
    /\ rcc = RccDefault
    /\ tscal \in TsCalExplored
    /\ ier = {}
    /\ aes_sr = {}
    /\ owner = "drv"
    /\ pc = "idle"
    /\ trace = <<>>

TempNext ==
    \/ HwCcrdy
    \/ HwEocWith(SamplesExplored)
    \/ ConvCall("temperature")
    \/ CvAssertEnabled
    \/ CvAssertSource
    \/ CvSetChsel
    \/ CvWaitCcrdy
    \/ CvStart
    \/ CvReadCalfact
    \/ CvWaitEoc
    \/ CvReadDr
    \/ CvClearEoc

TempSpec == TempInit /\ [][TempNext]_vars

\* Ts::cycles and Ts::as_duration, which need no Adc, on every sample time
TsNext ==
    \/ \E ts \in DOMAIN Ts : Cycles(ts)
    \/ AsDuration

TsSpec == ConvInit /\ [][TsNext]_vars

\* the steps of an operation that has been entered: the processor keeps
\* executing it, and a wait loop is left as soon as its flag is read as set
Running ==
    \/ EnableClearReady \/ EnableSetAden \/ EnableWaitReady
    \/ SdStop \/ SdWaitStop \/ SdCheckAden \/ SdSetAddis
    \/ EvWaitDisabled \/ EvSetVreg \/ EvClearDma
    \/ CalDelay \/ ScAssert \/ ScWrite \/ CalWait \/ CalClearEocal
    \/ CvAssertEnabled \/ CvAssertSource \/ CvSetChsel \/ CvWaitCcrdy
    \/ CvStart \/ CvReadCalfact \/ CvWaitEoc \/ CvReadDr \/ CvClearEoc

\* the samples the conversions end with here: one that temperature can
\* convert with the constants of TsCalDefault and one that it cannot
TermSamples == {0, 1791}

\* a peripheral in any state, as Init, with the temperature sensor on
TermInit ==
    /\ cr \in SUBSET CrBits
    /\ enabling \in BOOLEAN
    /\ HwOk(cr, enabling)
    /\ isr \in SUBSET IsrBits
    /\ dmaen \in BOOLEAN
    /\ ckmode = "ADCLK"
    /\ adcsel = "NOCLOCK"
    /\ adcen \in BOOLEAN
    /\ cfgPend = FALSE
    /\ chselr = {} /\ smpr = {} /\ dr = 0 /\ calfact = 0
    /\ ccr = {"TSEN"}
    /\ presc = "DIV1"
    /\ rcc = RccDefault
    /\ tscal = TsCalDefault
    /\ ier = {}
    /\ aes_sr = {}
    /\ owner = "pac"
    /\ pc = "idle"
    /\ trace = <<>>

\* The operations that wait for the peripheral, on a peripheral found in any
\* state, run by a processor that does not stop.  The peripheral is free to
\* answer or not.
TermNext ==
    \/ HwReady \/ HwStopDone \/ HwDisableDone \/ HwCalDone \/ HwCcrdy
    \/ HwEocWith(TermSamples)
    \/ Steal
    \/ Enable
    \/ SdStop \/ SdWaitStop \/ SdCheckAden \/ SdSetAddis
    \/ EnableVreg
    \/ ScAssert \/ ScWrite
    \/ Calibrate
    \/ Conversion

TermSpec == TermInit /\ [][TermNext]_vars /\ WF_vars(Running)

\* the peripheral keeps making progress
FairSpec ==
    /\ Spec
    /\ WF_vars(HwReady) /\ WF_vars(HwStopDone) /\ WF_vars(HwEoc)
    /\ WF_vars(HwDisableDone) /\ WF_vars(HwCalDone)

--------------------------------------------------------------------------
(* Reading the trace *)

Last(s) == s[Len(s)]

\* the public operation o has returned and no other has been called since
Returned(o) == trace # <<>> /\ Last(trace) = Ret(o)

\* ADC_CR and ADC_ISR as the running (or last) operation found them
Entry == IF trace = <<>> THEN {} ELSE trace[1].v

\* the events of one step
NewEvents ==
    IF trace' = trace THEN <<>>
    ELSE IF Len(trace') > Len(trace) /\ SubSeq(trace', 1, Len(trace)) = trace
           THEN SubSeq(trace', Len(trace) + 1, Len(trace'))
           ELSE trace'

Has(s, e) == \E i \in DOMAIN s : s[i] = e

Before(s, e, f) == \E i, j \in DOMAIN s : i < j /\ s[i] = e /\ s[j] = f

\* e is a register write (plain or read-modify-write) that sets bit b of register r
Sets(e, r, b) == e.k \in {"wr", "set"} /\ e.r = r /\ b \in e.v

\* e writes some register
IsWrite(e) == e.k \in {"wr", "set", "clr"}

\* the last n events of s
LastN(s, n) == SubSeq(s, Len(s) - n + 1, Len(s))

--------------------------------------------------------------------------
(* Claims *)

\* C1: with the debug assertions active, a write that sets ADCAL in ADC_CR
\* happens only in a state where the peripheral is fully disabled (ADEN and
\* ADDIS clear) and ADVREGEN is set.
C1_CalStartOnlyDisabledWithVreg ==
    [][\A i \in DOMAIN NewEvents :
          Sets(NewEvents[i], "cr", "ADCAL") => (is_disabled /\ "ADVREGEN" \in cr)]_vars

\* start_calibrate, called on its own, has requested the calibration start
C1_Witness ==
    /\ Returned("start_calibrate")
    /\ Has(trace, Wr("cr", {"ADCAL", "ADVREGEN"}))

\* C2: in calibrate() the events come in this order: peripheral observed
\* disabled, ADVREGEN written, delay of T_ADCVREG_SETUP_MICROS, calibration
\* start written, calibration observed finished, EOCAL cleared; the
\* calibration start is never written before the delay.
C2_CalibrateOrder ==
    op = "calibrate" =>
      /\ \A i \in DOMAIN trace :
            Sets(trace[i], "cr", "ADCAL") =>
              \E j \in 1..(i - 1) : trace[j] = Delay(20)
      /\ Returned("calibrate") =>
            /\ Len(trace) >= 9
            /\ LastN(trace, 8) =
                 << Obs("disabled"), Wr("cr", {"ADVREGEN"}), ClrF("cfgr1", {"DMAEN"}),
                    Delay(20), Wr("cr", {"ADCAL", "ADVREGEN"}), Obs("adcal_clear"),
                    Wr("isr", {"EOCAL"}), Ret("calibrate") >>

\* calibrate() has returned after being called with a conversion active
C2_Witness == Returned("calibrate") /\ "ADSTART" \in Entry

\* C3: when calibrate() has returned, no calibration is in progress, EOCAL is
\* clear, the peripheral is disabled and ADVREGEN is set.
C3_CalibratePost ==
    Returned("calibrate") =>
      /\ "ADCAL" \notin cr
      /\ "EOCAL" \notin isr
      /\ is_disabled
      /\ "ADVREGEN" \in cr

\* calibrate() has returned after being called on an enabled peripheral
C3_Witness == Returned("calibrate") /\ "ADEN" \in Entry /\ "EOCAL" \in Entry

\* C4: when enable_vreg() has returned, the peripheral is fully disabled,
\* ADVREGEN is set and DMAEN is clear.
C4_EnableVregPost ==
    Returned("enable_vreg") =>
      /\ "ADEN" \notin cr /\ "ADDIS" \notin cr
      /\ "ADVREGEN" \in cr
      /\ ~dmaen

\* enable_vreg() has returned after being called with a conversion active
C4_Witness == Returned("enable_vreg") /\ "ADSTART" \in Entry

\* C5: enable() called on a disabled peripheral clears ADRDY, then writes
\* ADEN, and returns only after the peripheral has raised ADRDY for this
\* request (the enable has completed); on return is_enabled() is true.
C5_EnableWaitsForReady ==
    (Returned("enable") /\ "ADEN" \notin Entry) =>
      /\ trace = << Call("enable", Entry), Wr("isr", {"ADRDY"}), Wr("cr", {"ADEN"}),
                    Obs("adrdy"), Ret("enable") >>
      /\ is_enabled
      /\ ~enabling
      /\ "ADRDY" \in isr

\* enable() has returned after finding the peripheral disabled with ADRDY
\* left set by an earlier enable
C5_Witness == Returned("enable") /\ "ADEN" \notin Entry /\ "ADRDY" \in Entry

\* C6: enable() called with ADEN already set writes no register and changes
\* none: it returns at once, so a second enable() leaves the state of the
\* first.
C6_EnableIdempotent ==
    [][(trace' # trace /\ trace'[1].r = "enable" /\ "ADEN" \in trace'[1].v) =>
         /\ UNCHANGED hw
         /\ trace' = << Call("enable", cr \cup isr), Ret("enable") >>
         /\ pc' = "idle"]_vars

\* enable() has returned after finding the peripheral enabled and ready
C6_Witness ==
    /\ Returned("enable")
    /\ "ADEN" \in Entry /\ "ADRDY" \in Entry
    /\ is_enabled /\ ~enabling

\* C7: start_disable() called on a fully disabled peripheral with no
\* conversion active writes no register and changes none; is_disabled() is
\* true before and after.
C7_StartDisableNoOp ==
    [][(/\ trace' # trace
        /\ trace'[1].r = "start_disable"
        /\ trace'[1].v \cap {"ADEN", "ADDIS", "ADSTART"} = {}) =>
         /\ UNCHANGED hw
         /\ \A i \in DOMAIN trace' : ~IsWrite(trace'[i])
         /\ is_disabled /\ is_disabled']_vars

\* start_disable() has returned after finding the peripheral disabled
C7_Witness ==
    /\ Returned("start_disable")
    /\ Entry \cap {"ADEN", "ADDIS", "ADSTART"} = {}
    /\ trace = << Call("start_disable", Entry), Ret("start_disable") >>

\* C8: start_disable() never writes ADDIS while a conversion is active: if
\* ADSTART was set on entry, the stop request and the observation of ADSTP
\* clear come first.
C8_NoDisableDuringConversion ==
    [][\A i \in DOMAIN NewEvents :
          Sets(NewEvents[i], "cr", "ADDIS") =>
            /\ "ADSTART" \notin cr /\ "ADSTP" \notin cr
            /\ "ADSTART" \in Entry =>
                 Before(trace, SetF("cr", {"ADSTP"}), Obs("adstp_clear"))]_vars

\* start_disable() has stopped a conversion and then requested the disable
C8_Witness ==
    /\ Returned("start_disable")
    /\ "ADSTART" \in Entry
    /\ Has(trace, SetF("cr", {"ADSTP"}))
    /\ Has(trace, SetF("cr", {"ADDIS"}))

\* a write to ADC_CR in this step asks for the enable
EnableRequested == \E i \in DOMAIN NewEvents : Sets(NewEvents[i], "cr", "ADEN")

\* C9: start_disable() on an enabled peripheral returns without waiting for
\* the disable; while the peripheral keeps making progress is_disabled()
\* becomes true, and it stays true as long as no enable is requested.
C9_DisableCompletes ==
    /\ (Returned("start_disable") /\ "ADEN" \in Entry) ~> is_disabled
    /\ [][(is_disabled /\ ~EnableRequested) => is_disabled']_vars

\* start_disable() has returned and the peripheral is not disabled yet
C9_Witness ==
    /\ Returned("start_disable")
    /\ "ADEN" \in Entry
    /\ ~is_disabled

\* C10: after new(adc, clk, rcc), whatever the peripheral's state before
\* and whatever clk, is_enabled() is false and is_disabled() is true.
C10_NewLeavesDisabled ==
    Returned("new") => (~is_enabled /\ is_disabled)

\* new() has returned after resetting a peripheral that was converting
C10_Witness ==
    /\ Returned("new")
    /\ {"ADEN", "ADSTART"} \subseteq Entry
    /\ ckmode = "PCLK_DIV4"

\* C11: with the debug assertions active, ADC_SMPR is never written while
\* ADSTART is set: set_sample_times and set_max_sample_time write it only
\* after finding ADSTART clear, and when they trap they have written nothing.
C11_NoSmprWriteDuringConversion ==
    [][/\ \A i \in DOMAIN NewEvents :
            (IsWrite(NewEvents[i]) /\ NewEvents[i].r = "smpr") => "ADSTART" \notin cr
       /\ (pc' = "trapped" /\ op \in {"set_sample_times", "set_max_sample_time"}) =>
            (smpr' = smpr /\ \A i \in DOMAIN trace' : ~IsWrite(trace'[i]))]_vars

\* set_sample_times has trapped on a conversion in progress
C11_Witness ==
    /\ op = "set_sample_times"
    /\ pc = "trapped"
    /\ "ADSTART" \in cr

\* C12: in every conversion operation, on the first call and on every later
\* one, ADSTART is written only after the peripheral has raised CCRDY for the
\* write of ADC_CHSELR made by that same operation: the write is followed by
\* the observation of CCRDY, and no channel configuration is still waiting
\* to be applied when the start is requested.
C12_StartAfterAcknowledge ==
    [][\A i \in DOMAIN NewEvents :
          (op \in ConvOps /\ Sets(NewEvents[i], "cr", "ADSTART")) =>
            /\ Before(trace, Wr("chselr", mask(ConvCh)), Obs("ccrdy"))
            /\ ~cfgPend]_vars

\* a conversion operation has returned and no other operation has been called
ReturnedConv == trace # <<>> /\ op \in ConvOps /\ Last(trace).k = "ret"

\* the writes of the running operation that ask for a conversion start
Starts == {i \in DOMAIN trace : Sets(trace[i], "cr", "ADSTART")}

\* C13: each conversion operation writes ADSTART exactly once; it passes the
\* poll of EOC only in a state where EOC is set, reads ADC_DR after that,
\* then clears EOC, and EOC is clear when it returns; vref, vbat, dac and pin
\* return the value read from ADC_DR as it is, without the calibration factor.
C13_ConversionProtocol ==
    /\ [](op \in ConvOps =>
            /\ Cardinality(Starts) <= 1
            /\ ReturnedConv =>
                 /\ Cardinality(Starts) = 1
                 /\ \A i \in Starts : i < Len(trace) - 3
                 /\ trace[Len(trace) - 3] = Obs("eoc")
                 /\ trace[Len(trace) - 2].k = "rd" /\ trace[Len(trace) - 2].r = "dr"
                 /\ trace[Len(trace) - 1] = Wr("isr", {"EOC"})
                 /\ op # "temperature" => Last(trace).n = trace[Len(trace) - 2].n)
    /\ [][\A i \in DOMAIN NewEvents :
            /\ NewEvents[i] = Obs("eoc") => "EOC" \in isr
            /\ (NewEvents[i].k = "rd" /\ NewEvents[i].r = "dr") => NewEvents[i].n = dr
            /\ (NewEvents[i].k = "ret" /\ NewEvents[i].r \in ConvOps) =>
                 "EOC" \notin isr']_vars

\* pin has returned a non-zero sample on a peripheral whose calibration
\* factor is not zero
C13_Witness ==
    /\ ReturnedConv
    /\ op = "pin"
    /\ Last(trace).n = 1
    /\ calfact = 1

\* the running conversion needs an internal source and its enable is clear
SourceOff == SrcBit(op) # "NONE" /\ SrcBit(op) \notin ccr

\* C14: with the debug assertions active, a conversion operation entered
\* with ADEN clear goes no further than its first assertion, and temperature,
\* vref and vbat entered with TSEN, VREFEN or VBATEN clear go no further than
\* their second; the step that leaves an assertion which fails is a trap;
\* pin and dac trap for no other reason than ADEN clear, and the other three
\* for no other reason than ADEN or their own enable clear.
C14_ConversionPreconditions ==
    /\ [](op \in ConvOps =>
            /\ "ADEN" \notin Entry => pc \in {"cv_en", "trapped"}
            /\ SourceOff => pc \in {"cv_en", "cv_src", "trapped"}
            /\ pc = "trapped" => ("ADEN" \notin cr \/ SourceOff))
    /\ [][/\ (pc = "cv_en" /\ pc' # pc /\ ~is_enabled) =>
               (pc' = "trapped" /\ Last(trace') = Trap(op))
          /\ (pc = "cv_src" /\ pc' # pc /\ SourceOff) =>
               (pc' = "trapped" /\ Last(trace') = Trap(op))]_vars

\* vbat has trapped on an enabled peripheral whose battery divider is off
\* while the temperature sensor and the voltage reference are on
C14_Witness ==
    /\ op = "vbat"
    /\ pc = "trapped"
    /\ "ADEN" \in cr
    /\ ccr = {"TSEN", "VREFEN"}

\* the operations that open with a debug assertion
AssertingOps ==
    ConvOps \cup {"start_calibrate", "set_sample_times", "set_max_sample_time"}

\* where the driver is while such an operation has not passed its assertions
AssertLabels == {"sc_assert", "sst_assert", "cv_en", "cv_src", "trapped"}

\* C15: a failed debug assertion in start_calibrate, set_sample_times,
\* temperature, vref, vbat, dac or pin comes before any register write of the
\* operation: the trapped operation has written nothing, and none of its steps
\* up to the trap has changed a register (ADC_CHSELR, ADC_CR and ADC_SMPR
\* included).
C15_TrapBeforeAnyWrite ==
    /\ []((pc = "trapped" /\ op \in AssertingOps) =>
            \A i \in DOMAIN trace : ~IsWrite(trace[i]))
    /\ [][(/\ trace' # trace
           /\ trace'[1].r \in AssertingOps
           /\ pc' \in AssertLabels) => UNCHANGED hw]_vars

\* temperature has trapped on an enabled peripheral that is converting
C15_Witness ==
    /\ op = "temperature"
    /\ pc = "trapped"
    /\ {"ADEN", "ADSTART"} \subseteq cr

\* the bit of ADC_CHSELR the running conversion is to select
ExpectedBit ==
    CASE op = "temperature" -> 12
      [] op = "vref" -> 13
      [] op = "vbat" -> 14
      [] op = "dac" -> 17
      [] OTHER -> trace[2].n

\* C16: every write of ADC_CHSELR carries exactly one bit, the bit of the
\* channel of the operation that writes it (temperature 12, vref 13, vbat 14,
\* dac 17, pin the bit 0..11 of its pin's channel); the register never holds
\* more than one bit and never bit 15 or bit 16.
C16_ChselOneHot ==
    /\ [](/\ Cardinality(chselr) <= 1
          /\ chselr \cap {15, 16} = {}
          /\ op = "pin" => trace[2].n \in 0..11)
    /\ [][\A i \in DOMAIN NewEvents :
            (IsWrite(NewEvents[i]) /\ NewEvents[i].r = "chselr") =>
              /\ op \in ConvOps
              /\ NewEvents[i].k = "wr"
              /\ NewEvents[i].v = {ExpectedBit}
              /\ chselr' = {ExpectedBit}]_vars

\* pin has converted channel 11 after another channel had been selected
C16_Witness ==
    /\ ReturnedConv
    /\ op = "pin"
    /\ chselr = {11}
    /\ "CCRDY" \in Entry

\* the number whose 1 bits are at the positions b
RECURSIVE Value(_)
Value(b) == IF b = {} THEN 0
            ELSE LET i == CHOOSE j \in b : TRUE IN 2^i + Value(b \ {i})

\* C17: mask() of the channel with identifier n has exactly one bit set, the
\* bit at position n; no channel's mask has bit 15 or bit 16; the union of
\* the masks of all channels is 0x27FFF, the valid-channel mask.
C17_MaskOneHot ==
    (op = "mask" /\ Last(trace).k = "ret") =>
      /\ Cardinality(Last(trace).v) = 1
      /\ trace[2].n \in Last(trace).v
      /\ Value(Last(trace).v) = 2^(trace[2].n)
      /\ Last(trace).v \cap {15, 16} = {}
      /\ Value(UNION {mask(ch) : ch \in DOMAIN Ch}) = 163839
      /\ UNION {mask(ch) : ch \in DOMAIN Ch} = CH_MASK

\* mask() has been applied to the last channel, the DAC output
C17_Witness ==
    /\ op = "mask"
    /\ trace[2].r = "Dac"
    /\ Last(trace).v = {17}

\* bits lo..hi of the register value b, as a number
Field(b, lo, hi) == Value({i - lo : i \in b \cap (lo..hi)})

\* the sample time the peripheral applies to channel n under ADC_SMPR = b:
\* SMP2 (bits 6:4) when SMPSELn (bit 8 + n) is set, SMP1 (bits 2:0) otherwise
SampleTimeOf(b, n) == IF (8 + n) \in b THEN Field(b, 4, 6) ELSE Field(b, 0, 2)

\* C18: set_sample_times(mask, sel0, sel1) leaves in ADC_SMPR, whatever it
\* held, the value ((mask & 0x27FFF) << 8) | (sel1 << 4) | sel0: every valid
\* channel whose mask bit is clear samples for sel0, every valid channel
\* whose mask bit is set for sel1, and the bits 15, 16 and above 17 of mask
\* are not in the register.
C18_SampleTimesValue ==
    Returned("set_sample_times") =>
      LET m == trace[2].v
          sel0 == trace[3].n
          sel1 == trace[4].n
      IN  /\ smpr \cap ({8 + 15, 8 + 16} \cup (26..31)) = {}
          /\ Value(smpr) = Value(m \cap BitsOf(163839)) * 256 + sel1 * 16 + sel0
          /\ \A ch \in DOMAIN Ch :
                SampleTimeOf(smpr, Ch[ch]) = IF Ch[ch] \in m THEN sel1 ELSE sel0
          /\ Has(trace, Wr("smpr", smpr))

\* set_sample_times has been given a mask with every bit set, and two
\* different sample times
C18_Witness ==
    /\ Returned("set_sample_times")
    /\ trace[2].v = 0..31
    /\ trace[3].n = 5 /\ trace[4].n = 7

\* clock_hz has returned and no other operation has been called
ClockReturned == op = "clock_hz" /\ Last(trace).k = "ret"

\* h is the quotient of the frequency f (a ratio) by k, rounded toward zero
IsFloorOf(h, f, k) ==
    /\ h * (f.denom * k) <= f.numer
    /\ f.numer < (h + 1) * (f.denom * k)

\* C19: in the synchronous clock modes clock_hz() returns the bus clock PCLK
\* (mode PCLK), PCLK / 2 (mode PCLK_DIV2) or PCLK / 4 (mode PCLK_DIV4),
\* rounded toward zero, whatever the prescaler field and ADCSEL hold.
C19_SyncClockIsPclk ==
    (ClockReturned /\ ckmode # "ADCLK") =>
      IsFloorOf(Last(trace).n, rcc.pclk,
                CASE ckmode = "PCLK" -> 1
                  [] ckmode = "PCLK_DIV2" -> 2
                  [] OTHER -> 4)

\* the divider the claim gives for each value of the prescaler field
DivOf == [DIV1 |-> 1, DIV2 |-> 2, DIV4 |-> 4, DIV6 |-> 6, DIV8 |-> 8,
          DIV10 |-> 10, DIV12 |-> 12, DIV16 |-> 16, DIV32 |-> 32,
          DIV64 |-> 64, DIV128 |-> 128, DIV256 |-> 256]

\* the frequency the claim gives for each selection of the multiplexer
SourceOf ==
    [NOCLOCK |-> Ratio(0, 1), HSI16 |-> Ratio(16000000, 1),
     PLLP |-> rcc.pllp, SYSCLK |-> rcc.sysclk]

\* C20: in the asynchronous clock mode clock_hz() returns
\* floor(source / prescaler): source is 16,000,000 for HSI16, the PLL "P"
\* frequency, the system clock frequency, or 0 with no clock selected, and
\* prescaler is the 1, 2, 4, 6, 8, 10, 12, 16, 32, 64, 128 or 256 of the
\* prescaler field.
C20_AsyncClockIsSourceByPrescaler ==
    (ClockReturned /\ ckmode = "ADCLK" /\ presc \in DOMAIN DivOf) =>
      IsFloorOf(Last(trace).n, SourceOf[adcsel], DivOf[presc])

\* clock_hz has returned 32,000,000 / 3 / 6 rounded down, for the PLL "P"
\* output and a prescaler of 6
C20_Witness ==
    /\ ClockReturned
    /\ ckmode = "ADCLK" /\ adcsel = "PLLP" /\ presc = "DIV6"
    /\ rcc.pllp = Ratio(32000000, 3)
    /\ Last(trace).n = 1777777

\* C21: with a reserved code in the prescaler field and the asynchronous
\* clock mode, clock_hz() does not fail: it emits its diagnostic and returns
\* the frequency of the selected source rounded toward zero, which is what
\* it returns with a prescaler of 1.
C21_ReservedPrescalerIsOne ==
    (op = "clock_hz" /\ ckmode = "ADCLK" /\ presc = "RESERVED") =>
      /\ ClockReturned
      /\ pc = "idle"
      /\ Has(trace, ReservedPresc)
      /\ IsFloorOf(Last(trace).n, SourceOf[adcsel], 1)

\* clock_hz has returned 10,666,666 for a PLL "P" output of 32,000,000 / 3
\* and a reserved prescaler code, after its diagnostic
C21_Witness ==
    /\ ClockReturned
    /\ ckmode = "ADCLK" /\ adcsel = "PLLP" /\ presc = "RESERVED"
    /\ rcc.pllp = Ratio(32000000, 3)
    /\ Has(trace, ReservedPresc)
    /\ Last(trace).n = 10666666

\* the clk argument of the new that has just returned
NewClk == trace[2].r

\* C22: clock_hz() called on the Adc that new(adc, clk, rcc) returned, with
\* an asynchronous clk, returns the frequency of the source clk names:
\* 16,000,000 for RccHsi, the PLL "P" output for RccPllP, the system clock
\* for RccSysClk (rounded toward zero), the prescaler being the 1 of reset.
C22_NewThenClockHz ==
    [][(Returned("new") /\ op' = "clock_hz") =>
         /\ Last(trace').k = "ret"
         /\ NewClk = "RccHsi" => Last(trace').n = 16000000
         /\ NewClk = "RccPllP" => IsFloorOf(Last(trace').n, rcc.pllp, 1)
         /\ NewClk = "RccSysClk" => IsFloorOf(Last(trace').n, rcc.sysclk, 1)]_vars

\* clock_hz has returned 16,000,000 on an Adc made by new with RccHsi, under
\* a clock tree none of whose frequencies is 16,000,000
C22_Witness ==
    /\ ClockReturned
    /\ owner = "drv"
    /\ ckmode = "ADCLK" /\ adcsel = "HSI16" /\ presc = "DIV1"
    /\ Last(trace).n = 16000000

\* cycles has returned and no other operation has been called
CyclesReturned == op = "cycles" /\ Last(trace).k = "ret"

\* the Ratio a return event carries
RatioOf(e) == Ratio(e.n, Value(e.v))

\* the whole cycles in the name and the documentation of each sample time
Nominal == [Cyc1 |-> 1, Cyc3 |-> 3, Cyc7 |-> 7, Cyc12 |-> 12,
            Cyc19 |-> 19, Cyc39 |-> 39, Cyc79 |-> 79, Cyc160 |-> 160]

\* C23, as stated: cycles() of the sample time with register encoding k
\* is a ratio equal to (2k + 1) / 2.
C23_CyclesByOrdinal ==
    CyclesReturned =>
      2 * RatioOf(Last(trace)).numer
        = (2 * trace[2].n + 1) * RatioOf(Last(trace)).denom

\* C23, amended: cycles() of a sample time is a ratio equal to
\* (2n + 1) / 2, where n is the whole number of cycles the variant is named
\* after (1, 3, 7, 12, 19, 39, 79, 160), not its register encoding.
C23_CyclesByNominal ==
    CyclesReturned =>
      2 * RatioOf(Last(trace)).numer
        = (2 * Nominal[trace[2].r] + 1) * RatioOf(Last(trace)).denom

\* cycles has returned 25/2 for Cyc12, whose encoding is 3
C23_Witness ==
    /\ CyclesReturned
    /\ trace[2].r = "Cyc12" /\ trace[2].n = 3
    /\ RatioOf(Last(trace)) = Ratio(25, 2)

\* twice the cycles of the claims, in the order of the encoding
HalfCycles == <<3, 7, 15, 25, 39, 79, 159, 321>>

\* the ratio p is smaller than the ratio q
RatioLess(p, q) == p.numer * q.denom < q.numer * p.denom

\* C24: cycles() returns 3/2, 7/2, 15/2, 25/2, 39/2, 79/2, 159/2 and 321/2
\* for the encodings 0..7, each an odd numerator over the denominator 2;
\* of two calls, the one with the larger encoding returns the larger ratio;
\* no call returns less than the call on Ts::MIN, which is also the
\* default, and none returns more than the call on Ts::MAX.
C24_CyclesTable ==
    /\ [](CyclesReturned =>
            /\ RatioOf(Last(trace)) = Ratio(HalfCycles[trace[2].n + 1], 2)
            /\ Last(trace).n % 2 = 1)
    /\ [][(CyclesReturned /\ CyclesReturned') =>
            /\ trace[2].n < trace'[2].n =>
                 RatioLess(RatioOf(Last(trace)), RatioOf(Last(trace')))
            /\ trace'[2].r \in {Ts_MIN, Ts_default} =>
                 ~RatioLess(RatioOf(Last(trace)), RatioOf(Last(trace')))
            /\ trace'[2].r = Ts_MAX =>
                 ~RatioLess(RatioOf(Last(trace')), RatioOf(Last(trace)))]_vars

\* cycles has returned 321/2 for Ts::MAX, the encoding 7
C24_Witness ==
    /\ CyclesReturned
    /\ trace[2].r = Ts_MAX /\ trace[2].n = 7
    /\ Last(trace).n = 321 /\ Value(Last(trace).v) = 2

\* as_duration has returned and no other operation has been called
AsDurationReturned == op = "as_duration" /\ Last(trace).k = "ret"

\* the nanoseconds the documentation gives at 16 MHz, in encoding order
At16MHz == <<93, 218, 468, 781, 1218, 2468, 4968, 10031>>

\* C25: for hz > 0, as_duration(hz) returns q nanoseconds with
\* q * (2 * hz) <= numerator * 10^9 < (q + 1) * (2 * hz), where
\* numerator / 2 are the cycles of the sample time; the two products it
\* computes on the way are the exact ones (nothing saturates); it fails for
\* no hz > 0; at 16 MHz the results are 93, 218, 468, 781, 1218, 2468, 4968
\* and 10031.
C25_AsDurationFloor ==
    /\ (op = "as_duration" /\ pc = "panicked") => trace[3].v = {}
    /\ AsDurationReturned =>
         LET hz == trace[3].v
             q  == Last(trace).v
             N  == Times(BitsOf(HalfCycles[trace[2].n + 1]), BitsOf(1000000000))
             D  == Times(BitsOf(2), hz)
         IN  /\ hz # {}
             /\ trace[4].v = N /\ trace[5].v = D
             /\ ~Less(N, Times(q, D))
             /\ Less(N, Times(Plus(q, BitsOf(1)), D))
             /\ hz = BitsOf(16000000) => Value(q) = At16MHz[trace[2].n + 1]

\* as_duration has returned for 160.5 cycles at 1 Hz: a count of
\* nanoseconds that does not fit 32 bits, from a numerator that does not
C25_Witness ==
    /\ AsDurationReturned
    /\ trace[2].r = "Cyc160" /\ trace[3].v = BitsOf(1)
    /\ ~(trace[4].v \subseteq 0..31)
    /\ ~(Last(trace).v \subseteq 0..31)

\* temperature has finished, by a return or by a panic
TemperatureDone == op = "temperature" /\ Last(trace).k \in {"ret", "panic"}

\* the sample temperature has read from ADC_DR
SampleRead == trace[CHOOSE i \in DOMAIN trace :
                      trace[i].k = "rd" /\ trace[i].r = "dr"].n

\* a ratio in lowest terms with a positive denominator
Norm(q) ==
    LET g  == GCD(Abs(q.numer), Abs(q.denom))
        sg == IF q.denom < 0 THEN 0 - 1 ELSE 1
    IN  Ratio((sg * q.numer) \div g, (sg * q.denom) \div g)

\* a u16 difference read as a signed 16-bit value
Signed16(x) == IF x % 65536 >= 32768 THEN (x % 65536) - 65536 ELSE x % 65536

\* a ratio with a positive denominator, rounded toward zero
Truncated(q) ==
    IF q.numer >= 0 THEN q.numer \div q.denom ELSE 0 - ((0 - q.numer) \div q.denom)

\* C26: with cal1 < cal2, temperature() returns the ratio
\* 100 * (s + c - cal1) / (cal2 - cal1) + 30 for the sample s it has read and
\* the calibration factor c, each difference taken modulo 2^16 and read as a
\* signed 16-bit value; for s = 1500, c = 10, cal1 = 1400, cal2 = 1800 the
\* result rounds toward zero to 57.
C26_TemperatureExact ==
    (TemperatureDone /\ tscal.cal1 < tscal.cal2) =>
      LET X == Signed16(SampleRead + trace[CalfactRead].n - tscal.cal1 + 65536)
          D == Signed16(tscal.cal2 - tscal.cal1 + 65536)
      IN  /\ Last(trace).k = "ret"
          /\ Norm(RatioOf(Last(trace))) = Norm(Ratio(100 * X + 30 * D, D))
          /\ (SampleRead = 1500 /\ trace[CalfactRead].n = 10
                /\ tscal = [cal1 |-> 1400, cal2 |-> 1800]) =>
                Truncated(RatioOf(Last(trace))) = 57

\* the positions the claims give for the status flags
FlagBits == {0, 1, 2, 3, 4, 7, 8, 9, 11, 13}

\* C27: the masks of the status flags are single bits at the positions 0
\* (ready), 1 (end of sampling), 2 (end of conversion), 3 (end of sequence),
\* 4 (overrun), 7, 8, 9 (watchdogs 1 to 3), 11 (calibration done) and 13
\* (channel configuration ready); irq::ALL is their union; set_isr(x) writes
\* x & irq::ALL to ADC_ISR, a word with no bit outside those positions, and
\* the flags whose bits x holds are the ones it clears.
C27_SetIsrMasked ==
    /\ [](/\ irq_ARDY = {0} /\ irq_EOSMP = {1} /\ irq_EOC = {2}
           /\ irq_EOS = {3} /\ irq_OVR = {4}
           /\ irq_AWD1 = {7} /\ irq_AWD2 = {8} /\ irq_AWD3 = {9}
           /\ irq_EOCAL = {11} /\ irq_CCRDY = {13}
           /\ irq_ALL = FlagBits
           /\ Returned("set_isr") =>
                /\ trace[3].k = "wr" /\ trace[3].r = "isr.bits"
                /\ trace[3].v = trace[2].v \cap FlagBits)
    /\ [][\A i \in DOMAIN NewEvents :
            (NewEvents[i].k = "wr" /\ NewEvents[i].r = "isr.bits") =>
              /\ NewEvents[i].v \subseteq FlagBits
              /\ "ADRDY" \in isr' <=> ("ADRDY" \in isr /\ 0 \notin trace'[2].v)
              /\ "EOC" \in isr' <=> ("EOC" \in isr /\ 2 \notin trace'[2].v)
              /\ "EOCAL" \in isr' <=> ("EOCAL" \in isr /\ 11 \notin trace'[2].v)
              /\ "CCRDY" \in isr' <=> ("CCRDY" \in isr /\ 13 \notin trace'[2].v)]_vars

\* set_isr has been given every bit of the word, with all four flags up, and
\* has written the ten flag bits
C27_Witness ==
    /\ Returned("set_isr")
    /\ trace[2].v = 0..31
    /\ {"ADRDY", "EOC", "EOCAL", "CCRDY"} \subseteq Entry
    /\ trace[3].v = {0, 1, 2, 3, 4, 7, 8, 9, 11, 13}
    /\ isr = {}

\* C28: without steal there is at most one handle: new takes the peripheral
\* and leaves a driver, free takes the driver and leaves the peripheral, every
\* other operation needs the driver and keeps it, and once free has returned
\* nothing but new can be called.
C28_SingleHandle ==
    /\ [](owner \in {"pac", "drv"})
    /\ [][trace' # trace =>
            /\ op' = "new" => (owner = "pac" /\ owner' = "drv")
            /\ op' = "free" => (owner = "drv" /\ owner' = "pac")
            /\ op' \notin {"new", "free"} => (owner = "drv" /\ owner' = "drv")
            /\ Returned("free") => op' = "new"]_vars
    /\ [][owner' # owner => (trace' # trace /\ op' \in {"new", "free"})]_vars

\* a driver was made of the peripheral and free has given the peripheral back
C28_Witness ==
    /\ Returned("free")
    /\ owner = "pac"
    /\ adcen

\* no wait of the driver is left unanswered: where the driver waits, the
\* flag it waits for is up
FlagAwaited ==
    /\ pc = "en_wait" => "ADRDY" \in isr
    /\ pc = "sd_wait" => "ADSTP" \notin cr
    /\ pc = "ev_wait" => is_disabled
    /\ pc = "cal_wait" => "ADCAL" \notin cr
    /\ pc = "cv_ccrdy" => "CCRDY" \in isr
    /\ pc = "cv_eoc" => "EOC" \in isr

\* the operations that wait for a flag
WaitingOps == {"enable", "enable_vreg", "calibrate"} \cup ConvOps

\* an operation has been entered and has not ended
InProgress == op \in WaitingOps /\ pc \notin {"idle", "trapped", "panicked"}

\* an operation can only leave a wait whose flag is up: until then it
\* neither goes on nor ends
NoTimeout ==
    [][~FlagAwaited => (pc' = pc /\ trace' = trace)]_vars

\* C29 as stated: while the peripheral raises every flag the driver waits
\* for (ready, stop complete, disable complete, channel selection ready, end
\* of conversion, calibration finished), enable, enable_vreg, calibrate and
\* every conversion operation that has been entered returns; and no
\* operation leaves a wait before its flag is up.
C29_AlwaysReturns ==
    /\ []<>FlagAwaited => (InProgress ~> (pc = "idle"))
    /\ NoTimeout

\* C29, amended: under the same assumption every such operation that has
\* been entered ends, by returning or by a panic (a failed debug assertion,
\* an arithmetic overflow in temperature); no operation leaves a wait before
\* its flag is up, so an operation whose flag never comes never ends.
C29_ReturnsOrPanics ==
    /\ []<>FlagAwaited => (InProgress ~> (pc \in {"idle", "trapped", "panicked"}))
    /\ NoTimeout

\* temperature has waited for the channel selection and for the end of the
\* conversion, and has returned
C29_Witness ==
    /\ op = "temperature" /\ pc = "idle"
    /\ Last(trace).k = "ret"
    /\ Has(trace, Obs("ccrdy")) /\ Has(trace, Obs("eoc"))

\* the words of the key the last operation returned
KeyReturned == [i \in 1..4 |-> trace[Len(trace) - 4 + i].v]

\* bits 32 j .. 32 j + 31 of the 128-bit value k, as a 32-bit value
Bits32(k, j) == {i \in 0..31 : i + 32 * j \in k}

\* C30: Key128::from_u128(k) is the key Key128::from_u32([w0, w1, w2, w3])
\* makes of the four 32-bit words of k, w0 the most significant and w3 the
\* least; and two calls of from_u128 with different k return different keys.
C30_KeyWordOrder ==
    /\ [](op = "from_u128" =>
            /\ Len(trace) = 6
            /\ [key |-> KeyReturned]
                 = from_u32(<< Bits32(trace[2].v, 3), Bits32(trace[2].v, 2),
                               Bits32(trace[2].v, 1), Bits32(trace[2].v, 0) >>))
    /\ [](op = "from_u32" =>
            KeyReturned = [i \in 1..4 |-> trace[1 + i].v])
    /\ [][(op = "from_u128" /\ op' = "from_u128" /\ trace'[2].v # trace[2].v)
            => KeyReturned' # KeyReturned]_vars

\* from_u128 has been given the key of the documentation and has returned
\* 0xAAAAAAAA, 0xBBBBBBBB, 0xCCCCCCCC, 0xDDDDDDDD
C30_Witness ==
    /\ op = "from_u128"
    /\ trace[2].v = DocKey
    /\ KeyReturned = << {i \in 0..31 : i % 2 = 1}, {i \in 0..31 : i % 4 \in {0, 1, 3}},
                        {i \in 0..31 : i % 4 \in {2, 3}}, {i \in 0..31 : i % 4 \in {0, 2, 3}} >>

\* C31: set_ier(x) writes x & irq::ALL to ADC_IER, as set_isr does to
\* ADC_ISR: the word written holds no bit outside the ten interrupt bits, and
\* the reserved bits of ADC_IER stay at their reset value 0.
C31_SetIerMasked ==
    /\ Returned("set_ier") =>
          /\ trace[3].k = "wr" /\ trace[3].r = "ier"
          /\ trace[3].v = trace[2].v \cap FlagBits
    /\ ier \subseteq FlagBits

\* encrypt_ecb has returned
EncryptDone == op = "encrypt_ecb" /\ Last(trace).k = "ret"

\* the status reads, the output reads and the key-register writes of the
\* running encrypt_ecb
IsSrRead(e) == e.k = "rd" /\ e.r = "aes.sr"
IsOutRead(e) == e.k = "rd" /\ e.r = "aes.doutr"
IsHighKeyWrite(e) ==
    e.k = "wr" /\ e.r \in {"aes.keyr4", "aes.keyr5", "aes.keyr6", "aes.keyr7"}
SrSeen == SelectSeq(trace, IsSrRead)

\* C32: encrypt_ecb returns Err(Write) when a status read shows the write
\* error, Err(Read) when it shows the read error without the write error, Ok
\* only after a status read that shows CCF and no error; it reads no output
\* word when it returns an error and four when it returns Ok; key registers
\* 4 to 7 are written only for a 256-bit key; and it does not leave the loop
\* on a status that shows none of the three flags.
C32_EncryptOutcome ==
    /\ [](EncryptDone =>
            /\ Len(SrSeen) = 1
            /\ Last(trace).v = {"Err", "Write"} <=> "WRERR" \in SrSeen[1].v
            /\ Last(trace).v = {"Err", "Read"}
                 <=> ("RDERR" \in SrSeen[1].v /\ "WRERR" \notin SrSeen[1].v)
            /\ Last(trace).v = {"Ok"} <=> SrSeen[1].v = {"CCF"}
            /\ Len(SelectSeq(trace, IsOutRead)) = IF Last(trace).v = {"Ok"} THEN 4 ELSE 0)
    /\ [](op = "encrypt_ecb" =>
            (SelectSeq(trace, IsHighKeyWrite) # <<>> => Len(AesKey) = 8))
    /\ [][(pc = "aes_poll" /\ aes_sr = {}) => (pc' = pc /\ trace' = trace)]_vars

\* encrypt_ecb has returned Err(Write) on a status that showed the read
\* error too, with a 128-bit key
C32_Witness ==
    /\ EncryptDone
    /\ Last(trace).v = {"Err", "Write"}
    /\ {"RDERR", "WRERR"} \subseteq SrSeen[1].v
    /\ Len(AesKey) = 4

\* the Enabled power state: the enable has completed, ready was reported
\* and no disable is requested
PowerEnabled == "ADEN" \in cr /\ ~enabling /\ "ADDIS" \notin cr

\* C33: from the return of enable() until the next operation is called, the
\* peripheral is enabled and no disable request is pending, whatever the
\* hardware does in between; also when enable() was called while a disable
\* requested by start_disable() was still in progress.
C33_EnableSticks ==
    [](Returned("enable") => ("ADEN" \in cr /\ "ADDIS" \notin cr))

\* a step of enable() or of a conversion operation
EnableOrConvStep ==
    /\ trace' # trace
    /\ trace' # <<>>
    /\ trace'[1].r \in {"enable"} \cup ConvOps

\* C34: a step of enable() or of a conversion operation leaves ADVREGEN set
\* in ADC_CR when it was set before: these operations change only their own
\* request bit.
C34_VregKept ==
    [][(EnableOrConvStep /\ "ADVREGEN" \in cr) => "ADVREGEN" \in cr']_vars

\* C35: a conversion operation writes ADSTART only in the Enabled power
\* state; a call made while the enable or a disable is in progress stops at
\* the assertion on is_enabled().
C35_StartOnlyEnabled ==
    [][(pc = "cv_start" /\ pc' # pc) => PowerEnabled]_vars

\* C36: exactly one of is_enabled() and is_disabled() is true in every
\* state, also while an enable or a disable request is in progress.
C36_EnabledXorDisabled ==
    is_enabled # is_disabled

\* a disable requested by start_disable is in progress
C36_Witness ==
    /\ Returned("start_disable")
    /\ "ADDIS" \in cr
    /\ is_enabled /\ ~is_disabled

\* the values of 12 bits
U12 == 0..4095

\* C37: for a sample of 12 bits, a calibration factor of 7 bits and factory
\* constants of 12 bits with cal1 < cal2, every intermediate value of the
\* computation fits a signed 16-bit integer: temperature() returns, it does
\* not stop on an arithmetic overflow.
C37_TemperatureFits ==
    ( /\ TemperatureDone
      /\ SampleRead \in U12
      /\ trace[CalfactRead].n \in 0..127
      /\ tscal.cal1 \in U12 /\ tscal.cal2 \in U12
      /\ tscal.cal1 < tscal.cal2 )
      => Last(trace).k = "ret"

\* C38: as_duration(hz) returns a duration for every frequency it is given,
\* 0 Hz included: it never ends in a division fault.
C38_AsDurationTotal ==
    (op = "as_duration" /\ pc \notin {"ad_numer", "ad_denom", "ad_div"})
      => (pc = "idle" /\ Last(trace).k = "ret")

--------------------------------------------------------------------------
(* Sanity of the model *)

PcLabels ==
    {"idle", "trapped", "panicked", "en_clr", "en_set", "en_wait",
     "sd_stp", "sd_wait", "sd_chk", "sd_addis",
     "ev_wait", "ev_vreg", "ev_dma",
     "cal_delay", "sc_assert", "sc_wr", "cal_wait", "cal_clr",
     "sst_assert", "sst_wr",
     "cv_en", "cv_src", "cv_chsel", "cv_ccrdy", "cv_start", "cv_calfact",
     "cv_eoc", "cv_dr", "cv_clr",
     "ad_numer", "ad_denom", "ad_div",
     "aes_key", "aes_din", "aes_poll", "aes_dout"}

TypeOK ==
    /\ cr \subseteq CrBits
    /\ isr \subseteq IsrBits
    /\ dmaen \in BOOLEAN /\ enabling \in BOOLEAN /\ adcen \in BOOLEAN
    /\ HwOk(cr, enabling)
    /\ cfgPend \in BOOLEAN
    /\ chselr \subseteq 0..31 /\ smpr \subseteq 0..31
    /\ dr \in 0..65535 /\ calfact \in 0..127
    /\ ccr \subseteq CcrBits
    /\ presc \in Presc
    /\ tscal \in [cal1 : 0..65535, cal2 : 0..65535]
    /\ ier \subseteq 0..31
    /\ aes_sr \subseteq AesSrBits
    /\ owner \in {"pac", "drv"}
    /\ pc \in PcLabels
    /\ (pc # "idle" /\ op \notin {"as_duration", "encrypt_ecb"}) => owner = "drv"

==========================================================================
